---------------------------- MODULE Spec2Model ----------------------------
(***************************************************************************)
(* mail_manager.py: the account registry, the credential resolver, the     *)
(* token file, the OAuth exchanges and the two session-opening paths       *)
(* (connect_imap for reading, send_email for sending).                     *)
(*                                                                         *)
(* Every CLI invocation is one operating-system process; it is modelled    *)
(* as a slot p of Procs that runs one command from Start to Return.  A     *)
(* command is cut into steps at every access to the token file and at      *)
(* every network call, so that two invocations can interleave exactly      *)
(* where the operating system lets them.                                   *)
(*                                                                         *)
(* Tokens are numbered: the provider's k-th successful response carries    *)
(* access token k and refresh token k.  In a token dictionary the value 0  *)
(* stands for "the key is not in the dictionary".                          *)
(***************************************************************************)
EXTENDS Integers, Sequences, FiniteSets, TLC

\* ------------------------------------------------------------------ bounds
\* Longest secret (characters) get_credentials is applied to.
MaxSecretLen == 3
\* Successful responses the identity provider gives in one behaviour.
MaxIssue == 3
\* Largest reading of the wall clock (datetime.now()).
MaxClock == 2
\* expires_in of every token set the provider returns, in clock units.
TokenLifetime == 1

Procs == {1, 2}

VARIABLES
    file,        \* the token file TOKEN_FILE: [kind, data]
    now,         \* the wall clock
    issued,      \* number of the last token set the provider issued
    pc,          \* pc[p]: where invocation p stands
    op,          \* op[p]: "read" (connect_imap), "send" (send_email), "callback",
                 \*        "status", "init", "draft", "none"
    account,     \* account[p]: the account identifier given on the command line
    azure,       \* azure[p]: AZURE_CLIENT_ID and AZURE_TENANT_ID are both non-empty
    conn,        \* conn[p]: "none" | "open" | "broken" | "closed"
    access,      \* access[p]: the access token the current auth_string is built from
    rtoken,      \* rtoken[p]: tokens["refresh_token"] read in the except handler
    newTokens,   \* newTokens[p]: the dictionary parsed from the provider's response
    firstExc,    \* firstExc[p]: what the first authentication attempt raised ("" before it)
    result,      \* result[p]: [kind, detail] returned to the caller ("" while running)
    log,         \* log[p]: the network calls and file writes of this invocation, in order
    fileAtStart, \* fileAtStart[p]: the token file as it was when the invocation started
    call,        \* a function applied on its own: [fn, args, ret] (NoCall when none is)
    code,        \* code[p]: the authorization code oauth_callback took from the url (0: none)
    inbox,       \* the INBOX on the mail server: the messages in sequence-number order
    archive,     \* the copies made into other folders: <<uid, folder>>
    mv,          \* the move command (move_email) being run
    sorter,      \* mail_sorter.sort_account being run
    poll         \* replicate_image.wait_for_prediction being run

vars == <<file, now, issued, pc, op, account, azure, conn, access, rtoken,
          newTokens, firstExc, result, log, fileAtStart, call, code,
          inbox, archive, mv, sorter, poll>>

\* The state of the commands that are not sessions of the OAuth core.
toolVars == <<inbox, archive, mv, sorter, poll>>

\* ---------------------------------------------------------- data
NoTokensDict == [access_token |-> 0, refresh_token |-> 0, token_type |-> "",
                 expires_in |-> 0, saved_at |-> 0]

MissingFile   == [kind |-> "missing",   data |-> NoTokensDict]
GarbageFile   == [kind |-> "garbage",   data |-> NoTokensDict]
TruncatedFile == [kind |-> "truncated", data |-> NoTokensDict]
\* Bytes that are not text in the encoding open(TOKEN_FILE, "r") decodes with.
UndecodableFile == [kind |-> "undecodable", data |-> NoTokensDict]
JsonFile(d)   == [kind |-> "json",      data |-> d]

NoResult == [kind |-> "", detail |-> ""]
Failure(k, d) == [kind |-> k, detail |-> d]
Success == [kind |-> "success", detail |-> ""]

\* One entry of log: the call (ev), the token it carried (tok), how it ended
\* (out, with the server's or provider's detail) and the clock reading (at).
Event(e, t, o, d) == [ev |-> e, tok |-> t, out |-> o, detail |-> d, at |-> now]

\* ---------------------------------------------------------- Account Registry
AccountIds == {"gmail", "ac-creteil", "hotmail"}
UnknownIds == {"yahoo"}

\* SERVERS: the fields the session paths read.  The ac-creteil hosts come from
\* the environment (imapSet / smtpSet: the variable is unset or non-empty).
SERVERS(a, imapSet, smtpSet) ==
    CASE a = "gmail"      -> [imap |-> TRUE, smtp |-> TRUE,
                              use_ssl_smtp |-> FALSE, use_oauth |-> FALSE,
                              email_env |-> "GMAIL_ADDRESS",
                              password_env |-> "GMAIL_APP_PASSWORD"]
      [] a = "ac-creteil" -> [imap |-> imapSet, smtp |-> smtpSet,
                              use_ssl_smtp |-> TRUE, use_oauth |-> FALSE,
                              email_env |-> "AC_CRETEIL_EMAIL",
                              password_env |-> "AC_CRETEIL_PASSWORD"]
      [] a = "hotmail"    -> [imap |-> TRUE, smtp |-> TRUE,
                              use_ssl_smtp |-> FALSE, use_oauth |-> TRUE,
                              email_env |-> "HOTMAIL_ADDRESS",
                              password_env |-> "HOTMAIL_APP_PASSWORD"]

\* use_oauth with every account taken for an OAuth account.
use_oauth_every(a) == TRUE

\* config.get("use_oauth")
use_oauth(a) == a = "hotmail"

\* ---------------------------------------------------------- Credential Resolver
\* A secret is a sequence of characters; << >> is the unset or empty variable.
\* "a" stands for any character that is not white space.
Chars == {"a", " ", "\t", "\n"}

\* replace_spaces removing the first space only: password.replace(" ", "", 1).
replace_first_space(password) ==
    IF \E i \in 1..Len(password) : password[i] = " "
    THEN LET i == CHOOSE k \in 1..Len(password) :
                      password[k] = " " /\ \A j \in 1..(k - 1) : password[j] # " "
         IN SubSeq(password, 1, i - 1) \o SubSeq(password, i + 1, Len(password))
    ELSE password

\* password.replace(" ", "")
replace_spaces(password) == SelectSeq(password, LAMBDA c : c # " ")

\* get_credentials with the secret looked at before the address.
get_credentials_secret_first(a, address, password) ==
    LET failed(e) == [address |-> "", password |-> << >>, error |-> e] IN
    IF a \notin AccountIds THEN failed(Failure("Unknown account", a))
    ELSE LET config == SERVERS(a, TRUE, TRUE) IN
         IF ~config.use_oauth /\ password = << >>
         THEN failed(Failure("Missing", config.password_env))
         ELSE IF address = "" THEN failed(Failure("Missing", config.email_env))
         ELSE [address |-> address,
               password |-> IF password # << >> THEN replace_spaces(password) ELSE password,
               error |-> NoResult]

\* get_credentials: address and password are the values of the two environment
\* variables ("" and << >> when unset or empty).  Returns (address, password,
\* error); error is NoResult for None, and its detail is what the message names.
get_credentials(a, address, password) ==
    LET failed(e) == [address |-> "", password |-> << >>, error |-> e] IN
    IF a \notin AccountIds THEN failed(Failure("Unknown account", a))
    ELSE LET config == SERVERS(a, TRUE, TRUE) IN
         IF address = "" THEN failed(Failure("Missing", config.email_env))
         ELSE IF ~config.use_oauth /\ password = << >>
         THEN failed(Failure("Missing", config.password_env))
         ELSE [address |-> address,
               password |-> IF password # << >> THEN replace_spaces(password) ELSE password,
               error |-> NoResult]

\* ---------------------------------------------------------- Token Store
\* load_tokens: the parsed dictionary, or None (present = FALSE) when the file
\* does not exist (FileNotFoundError) or does not parse (JSONDecodeError).  Any
\* other exception leaves the function (exc): json.load reads the file as text,
\* and bytes that do not decode raise UnicodeDecodeError, a ValueError that is
\* not a JSONDecodeError.
load_tokens(f) ==
    IF f.kind = "json" THEN [present |-> TRUE, data |-> f.data, exc |-> ""]
    ELSE IF f.kind = "undecodable"
    THEN [present |-> FALSE, data |-> NoTokensDict, exc |-> "UnicodeDecodeError"]
    ELSE [present |-> FALSE, data |-> NoTokensDict, exc |-> ""]

\* Python truthiness of what load_tokens returned: None and {} are false.
Truthy(t) == t.present /\ t.data # NoTokensDict

\* get_valid_access_token: (access_token, error), or the exception load_tokens
\* let through (exc).
get_valid_access_token(f) ==
    LET tokens == load_tokens(f) IN
    IF tokens.exc # "" THEN [token |-> 0, error |-> "", exc |-> tokens.exc]
    ELSE IF ~Truthy(tokens)
    THEN [token |-> 0, error |-> "No tokens found. Run 'oauth-init' first.", exc |-> ""]
    ELSE IF tokens.data.access_token # 0
    THEN [token |-> tokens.data.access_token, error |-> "", exc |-> ""]
    ELSE [token |-> 0, error |-> "No access token found", exc |-> ""]

\* HasRefreshToken with the handler testing only that tokens were loaded.
HasRefreshTokenAnyTokens(f) == Truthy(load_tokens(f))

\* The test of the except handlers: tokens and "refresh_token" in tokens.
HasRefreshToken(f) ==
    LET tokens == load_tokens(f) IN Truthy(tokens) /\ tokens.data.refresh_token # 0

\* ---------------------------------------------------------- exceptions
\* The classes the except clauses name and the ones the library calls raise,
\* with Python's subclass relation (imaplib: abort is a subclass of error;
\* smtplib: every SMTP exception is an SMTPException, itself an OSError).
ExcAncestors(e) ==
    CASE e = "IMAP4.error"             -> {"IMAP4.error", "Exception"}
      [] e = "IMAP4.abort"             -> {"IMAP4.abort", "IMAP4.error", "Exception"}
      [] e = "SMTPAuthenticationError" -> {"SMTPAuthenticationError", "SMTPException",
                                           "OSError", "Exception"}
      [] e = "SMTPServerDisconnected"  -> {"SMTPServerDisconnected", "SMTPException",
                                           "OSError", "Exception"}
      [] e = "SMTPRecipientsRefused"   -> {"SMTPRecipientsRefused", "SMTPException",
                                           "OSError", "Exception"}
      [] e = "SMTPNotSupportedError"   -> {"SMTPNotSupportedError", "SMTPException",
                                           "OSError", "Exception"}
      [] e = "OSError"                 -> {"OSError", "Exception"}
      [] e = "KeyError"                -> {"KeyError", "Exception"}
      [] e = "UnicodeDecodeError"      -> {"UnicodeDecodeError", "ValueError", "Exception"}
      [] OTHER                         -> {}

IsInstance(e, cls) == cls \in ExcAncestors(e)

\* The exceptions that mean the server answered the AUTHENTICATE / AUTH command
\* with a refusal; every other one is a transport or programming error.
IsAuthRejection(e) == e \in {"IMAP4.error", "SMTPAuthenticationError"}

\* The inner handler around the first attempt:
\* connect_imap "except imaplib.IMAP4.error", send_email "except smtplib.SMTPAuthenticationError".
CaughtForRefresh(o, e) ==
    IF o = "read" THEN IsInstance(e, "IMAP4.error")
    ELSE IsInstance(e, "SMTPAuthenticationError")

\* OuterOutcome without the last handler of each function ("except Exception"):
\* an exception of no library class leaves the function.
OuterOutcomeLibraryOnly(o, e) ==
    IF o = "read"
    THEN IF IsInstance(e, "IMAP4.error") THEN "Authentication failed"
         ELSE "uncaught exception"
    ELSE IF IsInstance(e, "SMTPAuthenticationError") THEN "Authentication failed"
         ELSE IF IsInstance(e, "SMTPException") THEN "SMTP error"
         ELSE "uncaught exception"

\* The outer handlers of the two functions: the kind of failure returned for an
\* exception that reaches them.
OuterOutcome(o, e) ==
    IF o = "read"
    THEN IF IsInstance(e, "IMAP4.error") THEN "Authentication failed"
         ELSE "Connection failed"
    ELSE IF IsInstance(e, "SMTPAuthenticationError") THEN "Authentication failed"
         ELSE IF IsInstance(e, "SMTPException") THEN "SMTP error"
         ELSE "Failed to send"

\* The else branch of the handler (no refresh token): connect_imap returns its
\* own failure, send_email re-raises the SMTPAuthenticationError to the outer handler.
NoRefreshOutcome(o, e) ==
    IF o = "read" THEN "OAuth failed and no refresh token"
    ELSE OuterOutcome(o, e)

\* AfterFirstAuth with the refresh handler entered after a successful attempt too.
AfterFirstAuthAlwaysRefresh(o, e) ==
    IF e = "OK" \/ CaughtForRefresh(o, e) THEN "reload" ELSE "done"

\* AfterFirstAuth with the retry issued at once, before any refresh.
AfterFirstAuthSpeculative(o, e) ==
    IF e = "OK" THEN (IF o = "read" THEN "done" ELSE "send_message")
    ELSE IF CaughtForRefresh(o, e) THEN "auth2"
    ELSE "done"

\* What the step after the first attempt is: the session on success, the
\* refresh handler for an exception the inner handler catches, else the end.
AfterFirstAuth(o, e) ==
    IF e = "OK" THEN (IF o = "read" THEN "done" ELSE "send_message")
    ELSE IF CaughtForRefresh(o, e) THEN "reload"
    ELSE "done"

\* AfterSecondAuth with the second attempt wrapped in the same handler as the first.
AfterSecondAuthRetry(o, e) ==
    IF e = "OK" THEN (IF o = "read" THEN "done" ELSE "send_message")
    ELSE IF CaughtForRefresh(o, e) THEN "reload"
    ELSE "done"

\* AfterSecondAuth with a rejected second attempt starting the session over.
AfterSecondAuthStartOver(o, e) ==
    IF e = "OK" THEN (IF o = "read" THEN "done" ELSE "send_message")
    ELSE IF IsAuthRejection(e) THEN "token"
    ELSE "done"

\* What the step after the second attempt is: there is no handler around it.
AfterSecondAuth(o, e) ==
    IF e = "OK" THEN (IF o = "read" THEN "done" ELSE "send_message")
    ELSE "done"

\* ---------------------------------------------------------- collaborators
\* What the mail server can answer to an authentication command on a connection.
AuthOutcomes(o, c) ==
    IF o = "read"
    THEN (IF c = "open" THEN {"OK", "IMAP4.error"} ELSE {}) \cup {"IMAP4.abort", "OSError"}
    ELSE (IF c \in {"open", "plain"} THEN {"OK", "SMTPAuthenticationError"} ELSE {})
         \cup {"SMTPServerDisconnected", "OSError"}

\* The connection after a command that ended with e.
ConnAfter(c, e) == IF e \in {"OK", "IMAP4.error", "SMTPAuthenticationError"} THEN c ELSE "broken"

\* What opening the transport can end with (IMAP4_SSL; SMTP, SMTP_SSL).
ConnectOutcomes(o) ==
    IF o = "read" THEN {"OK", "OSError"} ELSE {"OK", "SMTPServerDisconnected", "OSError"}

\* What server.starttls(context=context) can end with: the upgrade done, the
\* extension not offered by the server, or the handshake failing (ssl.SSLError
\* is an OSError).
StartTlsOutcomes == {"OK", "SMTPNotSupportedError", "OSError"}

ProviderErrors == {"invalid_grant"}

\* What the token endpoint can answer: a token set (a key may be missing from
\* it), an HTTP error with a body, or anything urlopen / json.loads raises.
ProviderResponses(n) ==
    (IF n < MaxIssue
     THEN {[kind |-> "OK", detail |-> "",
            tokens |-> [access_token |-> a, refresh_token |-> r, token_type |-> "Bearer",
                        expires_in |-> TokenLifetime, saved_at |-> 0]]
              : a \in {0, n + 1}, r \in {0, n + 1}}
     ELSE {})
    \cup {[kind |-> "HTTPError", detail |-> b, tokens |-> NoTokensDict] : b \in ProviderErrors}
    \cup {[kind |-> "URLError", detail |-> "urlopen error", tokens |-> NoTokensDict]}

\* ---------------------------------------------------------- state
Append1(p, e) == [log EXCEPT ![p] = Append(@, e)]

\* No move, no sort and no prediction is being run.
NoMove == [pc |-> "idle", email_id |-> 0, folder |-> "", result |-> "", before |-> << >>,
           steps |-> << >>]
NoSort == [pc |-> "idle", emails |-> << >>, classifications |-> << >>, next |-> 1,
           sorted_count |-> 0, error_count |-> 0, moves |-> << >>]
NoPoll == [pc |-> "idle", status |-> "", attempts |-> 0, error |-> ""]

InitSession ==
    /\ file \in {MissingFile, GarbageFile, UndecodableFile}
    /\ now = 1
    /\ issued = 0
    /\ pc = [p \in Procs |-> "idle"]
    /\ op = [p \in Procs |-> "none"]
    /\ account = [p \in Procs |-> ""]
    /\ azure = [p \in Procs |-> FALSE]
    /\ conn = [p \in Procs |-> "none"]
    /\ access = [p \in Procs |-> 0]
    /\ rtoken = [p \in Procs |-> 0]
    /\ newTokens = [p \in Procs |-> NoTokensDict]
    /\ firstExc = [p \in Procs |-> ""]
    /\ result = [p \in Procs |-> NoResult]
    /\ log = [p \in Procs |-> << >>]
    /\ fileAtStart = [p \in Procs |-> MissingFile]
    /\ code = [p \in Procs |-> 0]

\* The state after construction with an empty mailbox and no other command run.
InitBase ==
    /\ InitSession
    /\ inbox = << >>
    /\ archive = {}
    /\ mv = NoMove
    /\ sorter = NoSort
    /\ poll = NoPoll

\* No function is applied on its own.
NoCall == [fn |-> "", args |-> << >>, ret |-> << >>, returned |-> FALSE]

Init ==
    /\ InitBase
    /\ call = NoCall

\* The end of an invocation: the result is set, and the connection is closed
\* where the code closes it (send_email's "with" block; connect_imap never does).
Finish(p, r, c) ==
    /\ pc' = [pc EXCEPT ![p] = "done"]
    /\ result' = [result EXCEPT ![p] = r]
    /\ conn' = [conn EXCEPT ![p] = IF op[p] = "send" /\ c # "none" THEN "closed" ELSE c]

\* ---------------------------------------------------------- connect_imap / send_email
\* The entry of connect_imap and send_email: the registry lookup, the host
\* check and get_credentials.
StartSession(p, ops, accts) ==
    /\ pc[p] = "idle"
    /\ \E o \in ops, a \in accts, address \in {"", "user@example.org"},
          password \in {<< >>, <<"a">>}, imapSet \in BOOLEAN, smtpSet \in BOOLEAN,
          az \in BOOLEAN :
         LET known == a \in AccountIds
             hostOk == known /\ (IF o = "read" THEN SERVERS(a, imapSet, smtpSet).imap
                                 ELSE SERVERS(a, imapSet, smtpSet).smtp)
             error == get_credentials(a, address, password).error
         IN /\ op' = [op EXCEPT ![p] = o]
            /\ account' = [account EXCEPT ![p] = a]
            /\ azure' = [azure EXCEPT ![p] = az]
            /\ fileAtStart' = [fileAtStart EXCEPT ![p] = file]
            /\ IF ~hostOk
               THEN /\ pc' = [pc EXCEPT ![p] = "done"]
                    /\ result' = [result EXCEPT ![p] =
                          Failure(IF o = "read" THEN "IMAP not configured"
                                  ELSE "SMTP not configured", a)]
               ELSE IF error # NoResult
               THEN /\ pc' = [pc EXCEPT ![p] = "done"]
                    /\ result' = [result EXCEPT ![p] = error]
               ELSE /\ pc' = [pc EXCEPT ![p] =
                          IF o = "send" /\ use_oauth(a) THEN "token" ELSE "connect"]
                    /\ UNCHANGED result
    /\ UNCHANGED <<file, now, issued, conn, access, rtoken, newTokens, firstExc, log>>
    /\ UNCHANGED <<call, code, toolVars>>

\* smtp_transport with no upgrade of the connection of the OAuth account.
smtp_transport_no_upgrade(a) ==
    IF use_oauth(a) THEN "SMTP"
    ELSE IF SERVERS(a, TRUE, TRUE).use_ssl_smtp THEN "SMTP_SSL"
    ELSE "STARTTLS"

\* The three branches of send_email: smtplib.SMTP followed by starttls for the
\* OAuth account, smtplib.SMTP_SSL for use_ssl_smtp, else smtplib.SMTP followed
\* by starttls.
smtp_transport(a) ==
    IF use_oauth(a) THEN "STARTTLS"
    ELSE IF SERVERS(a, TRUE, TRUE).use_ssl_smtp THEN "SMTP_SSL"
    ELSE "STARTTLS"

\* imaplib.IMAP4_SSL(...) / smtplib.SMTP(...) / smtplib.SMTP_SSL(...).  The
\* connection is "open" once it is under TLS, "plain" until then.
Connect(p) ==
    /\ pc[p] = "connect"
    /\ \E e \in ConnectOutcomes(op[p]) :
         IF e = "OK"
         THEN /\ conn' = [conn EXCEPT ![p] =
                    IF op[p] = "read" \/ smtp_transport(account[p]) = "SMTP_SSL"
                    THEN "open" ELSE "plain"]
              /\ pc' = [pc EXCEPT ![p] =
                    IF op[p] = "send" /\ smtp_transport(account[p]) = "STARTTLS"
                    THEN "starttls"
                    ELSE IF ~use_oauth(account[p]) THEN "login"
                    ELSE IF op[p] = "read" THEN "token" ELSE "auth1"]
              /\ UNCHANGED result
         ELSE Finish(p, Failure(OuterOutcome(op[p], e), e), "none")
    /\ UNCHANGED <<file, now, issued, op, account, azure, access, rtoken, newTokens,
                   firstExc, log, fileAtStart>>
    /\ UNCHANGED <<call, code, toolVars>>

\* server.starttls(context=context), between the two ehlo for the OAuth account.
StartTls(p) ==
    /\ pc[p] = "starttls"
    /\ \E e \in StartTlsOutcomes :
         IF e = "OK"
         THEN /\ conn' = [conn EXCEPT ![p] = "open"]
              /\ pc' = [pc EXCEPT ![p] = IF use_oauth(account[p]) THEN "auth1" ELSE "login"]
              /\ UNCHANGED result
         ELSE Finish(p, Failure(OuterOutcome(op[p], e), e), "broken")
    /\ UNCHANGED <<file, now, issued, op, account, azure, access, rtoken, newTokens,
                   firstExc, log, fileAtStart>>
    /\ UNCHANGED <<call, code, toolVars>>

\* access_token, token_error = get_valid_access_token()
GetToken(p) ==
    /\ pc[p] = "token"
    /\ LET r == get_valid_access_token(file) IN
         IF r.exc # ""
         THEN /\ Finish(p, Failure(OuterOutcome(op[p], r.exc), r.exc), conn[p])
              /\ UNCHANGED access
         ELSE IF r.error # ""
         THEN /\ Finish(p, Failure(r.error, ""), conn[p])
              /\ UNCHANGED access
         ELSE /\ access' = [access EXCEPT ![p] = r.token]
              /\ pc' = [pc EXCEPT ![p] = IF op[p] = "read" THEN "auth1" ELSE "connect"]
              /\ UNCHANGED <<result, conn>>
    /\ UNCHANGED <<file, now, issued, op, account, azure, rtoken, newTokens,
                   firstExc, log, fileAtStart>>
    /\ UNCHANGED <<call, code, toolVars>>

\* The first mail.authenticate("XOAUTH2", ...) / server.auth("XOAUTH2", ...).
FirstAuth(p) ==
    /\ pc[p] = "auth1"
    /\ \E e \in AuthOutcomes(op[p], conn[p]) :
         /\ log' = Append1(p, Event("auth", access[p], e, ""))
         /\ firstExc' = [firstExc EXCEPT ![p] = e]
         /\ LET next == AfterFirstAuth(op[p], e) IN
              IF next = "done"
              THEN Finish(p, IF e = "OK" THEN Success
                             ELSE Failure(OuterOutcome(op[p], e), e), ConnAfter(conn[p], e))
              ELSE /\ pc' = [pc EXCEPT ![p] = next]
                   /\ conn' = [conn EXCEPT ![p] = ConnAfter(@, e)]
                   /\ UNCHANGED result
    /\ UNCHANGED <<file, now, issued, op, account, azure, access, rtoken, newTokens,
                   fileAtStart>>
    /\ UNCHANGED <<call, code, toolVars>>

\* The handler: tokens = load_tokens(); if tokens and "refresh_token" in tokens.
Reload(p) ==
    /\ pc[p] = "reload"
    /\ IF load_tokens(file).exc # ""
       THEN /\ Finish(p, Failure(OuterOutcome(op[p], load_tokens(file).exc),
                                 load_tokens(file).exc), conn[p])
            /\ UNCHANGED rtoken
       ELSE IF HasRefreshToken(file)
       THEN /\ rtoken' = [rtoken EXCEPT ![p] = load_tokens(file).data.refresh_token]
            /\ pc' = [pc EXCEPT ![p] = "refresh"]
            /\ UNCHANGED <<result, conn>>
       ELSE /\ Finish(p, Failure(NoRefreshOutcome(op[p], firstExc[p]), firstExc[p]), conn[p])
            /\ UNCHANGED rtoken
    /\ UNCHANGED <<file, now, issued, op, account, azure, access, newTokens,
                   firstExc, log, fileAtStart>>
    /\ UNCHANGED <<call, code, toolVars>>

\* ---------------------------------------------------------- OAuth Session Manager
\* RefreshFailure with the provider's detail dropped.
RefreshFailureNoDetail(detail) == Failure("Token refresh failed", "")

\* What the callers make of a refresh_error: "Token refresh failed: <refresh_error>".
RefreshFailure(detail) == Failure("Token refresh failed", detail)

\* ResponseIsSaved with save_tokens in a "finally" clause.
ResponseIsSavedAlways(kind) == TRUE

\* exchange_code_for_tokens and refresh_access_token call save_tokens in the
\* "try" body, after urlopen and json.loads returned: not when either raised.
ResponseIsSaved(kind) == kind = "OK"

\* new_tokens, refresh_error = refresh_access_token(tokens["refresh_token"]), up to
\* the parsed response: the configuration check, the POST, json.loads.
Refresh(p) ==
    /\ pc[p] = "refresh"
    /\ IF ~azure[p]
       THEN /\ Finish(p, RefreshFailure("Azure OAuth credentials not configured"), conn[p])
            /\ UNCHANGED <<newTokens, issued, log>>
       ELSE \E resp \in ProviderResponses(issued) :
              /\ log' = Append1(p, Event("refresh", rtoken[p], resp.kind, resp.detail))
              /\ IF ResponseIsSaved(resp.kind)
                 THEN /\ newTokens' = [newTokens EXCEPT ![p] = resp.tokens]
                      /\ issued' = IF resp.kind = "OK" THEN issued + 1 ELSE issued
                      /\ pc' = [pc EXCEPT ![p] = "save_open"]
                      /\ UNCHANGED <<result, conn>>
                 ELSE /\ Finish(p, RefreshFailure(resp.detail), conn[p])
                      /\ UNCHANGED <<newTokens, issued>>
    /\ UNCHANGED <<file, now, op, account, azure, access, rtoken, firstExc, fileAtStart>>
    /\ UNCHANGED <<call, code, toolVars>>

\* A callback url: whether urllib.parse.urlparse accepts it (it raises
\* ValueError for some malformed urls), and the fields of its query in order,
\* each <<name, value>>.  Values are numbers, 0 is the empty string.
MaxParams == 2
ParamNames == {"code", "error", "state"}
ParamValues == {0, 1, 2}
Queries(n) == UNION {[1..k -> ParamNames \X ParamValues] : k \in 0..n}
CallbackUrls(n) ==
    {[valid |-> FALSE, query |-> << >>]} \cup {[valid |-> TRUE, query |-> q] : q \in Queries(n)}

\* The urls of the commands that are not looked at for their url: an error
\* answer, an answer without code, an answer with a code.
BasicUrls ==
    {[valid |-> TRUE, query |-> << <<"error", 1>> >>],
     [valid |-> TRUE, query |-> << >>],
     [valid |-> TRUE, query |-> << <<"code", 1>> >>]}

\* urllib.parse.parse_qs(parsed.query): for every name the values of its
\* fields, in order; keep_blank_values is False, so a field with an empty
\* value is dropped, and a name that has only such fields is not a key.
parse_qs(query) ==
    [k \in ParamNames |->
        LET sel == SelectSeq(query, LAMBDA f : f[1] = k /\ f[2] # 0)
        IN [i \in 1..Len(sel) |-> sel[i][2]]]

\* code_of with the last value of the parameter taken.
code_of_last(params) == params["code"][Len(params["code"])]

\* code = params["code"][0]
code_of(params) == params["code"][1]

\* oauth_callback up to the call of exchange_code_for_tokens: the failure it
\* returns, or the code it goes on with.
callback_params(url) ==
    IF ~url.valid
    THEN [error |-> Failure("Failed to process callback", "ValueError"), code |-> 0]
    ELSE LET params == parse_qs(url.query) IN
         IF params["error"] # << >>
         THEN [error |-> Failure("OAuth error", params["error"]), code |-> 0]
         ELSE IF params["code"] = << >>
         THEN [error |-> Failure("No authorization code in URL", ""), code |-> 0]
         ELSE [error |-> NoResult, code |-> code_of(params)]

\* The urls the command can be given: the one under study when oauth_callback
\* is studied for its url.
GivenUrls == IF call.fn = "oauth_callback" THEN {call.args[1]} ELSE BasicUrls

\* oauth_callback(callback_url) up to the call of exchange_code_for_tokens.
StartCallback(p) ==
    /\ pc[p] = "idle"
    /\ \E url \in GivenUrls, az \in BOOLEAN :
         LET r == callback_params(url) IN
         /\ op' = [op EXCEPT ![p] = "callback"]
         /\ azure' = [azure EXCEPT ![p] = az]
         /\ fileAtStart' = [fileAtStart EXCEPT ![p] = file]
         /\ code' = [code EXCEPT ![p] = r.code]
         /\ IF r.error = NoResult
            THEN /\ pc' = [pc EXCEPT ![p] = "exchange"]
                 /\ UNCHANGED result
            ELSE /\ pc' = [pc EXCEPT ![p] = "done"]
                 /\ result' = [result EXCEPT ![p] = r.error]
    /\ UNCHANGED <<file, now, issued, account, conn, access, rtoken, newTokens,
                   firstExc, log>>
    /\ UNCHANGED <<call, toolVars>>

\* exchange_code_for_tokens(code), up to the parsed response.
Exchange(p) ==
    /\ pc[p] = "exchange"
    /\ IF ~azure[p]
       THEN /\ Finish(p, Failure("Azure OAuth credentials not configured", ""), conn[p])
            /\ UNCHANGED <<newTokens, issued, log>>
       ELSE \E resp \in ProviderResponses(issued) :
              /\ log' = Append1(p, Event("exchange", code[p], resp.kind, resp.detail))
              /\ IF ResponseIsSaved(resp.kind)
                 THEN /\ newTokens' = [newTokens EXCEPT ![p] = resp.tokens]
                      /\ issued' = IF resp.kind = "OK" THEN issued + 1 ELSE issued
                      /\ pc' = [pc EXCEPT ![p] = "save_open"]
                      /\ UNCHANGED <<result, conn>>
                 ELSE /\ Finish(p, Failure("Token exchange failed", resp.detail), conn[p])
                      /\ UNCHANGED <<newTokens, issued>>
    /\ UNCHANGED <<file, now, op, account, azure, access, rtoken, firstExc, fileAtStart>>
    /\ UNCHANGED <<call, code, toolVars>>

\* save_tokens_open without the saved_at stamp.
save_tokens_open_unstamped(tokens, t) == tokens

\* save_tokens, first half: the saved_at stamp, then open(TOKEN_FILE, "w"),
\* which empties the file.
save_tokens_open(tokens, t) == [tokens EXCEPT !.saved_at = t]

SaveOpen(p) ==
    /\ pc[p] = "save_open"
    /\ newTokens' = [newTokens EXCEPT ![p] = save_tokens_open(@, now)]
    /\ file' = TruncatedFile
    /\ log' = Append1(p, Event("truncate", 0, file.kind, ""))
    /\ pc' = [pc EXCEPT ![p] = "save_write"]
    /\ UNCHANGED <<now, issued, op, account, azure, conn, access, rtoken,
                   firstExc, result, fileAtStart>>
    /\ UNCHANGED <<call, code, toolVars>>

\* save_tokens_write persisting the access token only.
save_tokens_write_access_only(f, tokens) == JsonFile([tokens EXCEPT !.refresh_token = 0])

\* save_tokens_write keeping a newer token set it finds in the file.
save_tokens_write_if_newer(f, tokens) ==
    IF f.kind = "json" /\ f.data.access_token > tokens.access_token THEN f
    ELSE JsonFile(tokens)

\* save_tokens, second half: json.dump and the close of the file.
save_tokens_write(f, tokens) == JsonFile(tokens)

\* rebuilt_auth_token with auth_string left as it was built for the first attempt.
rebuilt_auth_token_stale(old, new_tokens) == old

\* auth_string = generate_oauth2_string(address, new_tokens["access_token"], ...):
\* the access token the second attempt carries.
rebuilt_auth_token(old, new_tokens) == new_tokens.access_token

\* After save_tokens returns: oauth_callback reports success; the session paths
\* read new_tokens["access_token"] (a KeyError when the key is missing) and
\* rebuild auth_string.
SaveWrite(p) ==
    /\ pc[p] = "save_write"
    /\ file' = save_tokens_write(file, newTokens[p])
    /\ log' = Append1(p, Event("saved", newTokens[p].access_token, "", ""))
    /\ IF op[p] = "callback"
       THEN /\ Finish(p, Success, conn[p])
            /\ UNCHANGED access
       ELSE IF newTokens[p].access_token = 0
       THEN /\ Finish(p, Failure(OuterOutcome(op[p], "KeyError"), "KeyError"), conn[p])
            /\ UNCHANGED access
       ELSE /\ access' = [access EXCEPT ![p] = rebuilt_auth_token(@, newTokens[p])]
            /\ pc' = [pc EXCEPT ![p] = "auth2"]
            /\ UNCHANGED <<result, conn>>
    /\ UNCHANGED <<now, issued, op, account, azure, rtoken, newTokens, firstExc,
                   fileAtStart>>
    /\ UNCHANGED <<call, code, toolVars>>

\* The second mail.authenticate / server.auth, inside the except handler.
SecondAuth(p) ==
    /\ pc[p] = "auth2"
    /\ \E e \in AuthOutcomes(op[p], conn[p]) :
         /\ log' = Append1(p, Event("auth", access[p], e, ""))
         /\ LET next == AfterSecondAuth(op[p], e) IN
              IF next = "done"
              THEN Finish(p, IF e = "OK" THEN Success
                             ELSE Failure(OuterOutcome(op[p], e), e), ConnAfter(conn[p], e))
              ELSE /\ pc' = [pc EXCEPT ![p] = next]
                   /\ conn' = [conn EXCEPT ![p] = ConnAfter(@, e)]
                   /\ UNCHANGED result
    /\ UNCHANGED <<file, now, issued, op, account, azure, access, rtoken, newTokens,
                   firstExc, fileAtStart>>
    /\ UNCHANGED <<call, code, toolVars>>

\* Basic authentication of the static-secret accounts: mail.login / server.login.
Login(p) ==
    /\ pc[p] = "login"
    /\ \E e \in AuthOutcomes(op[p], conn[p]) :
         /\ log' = Append1(p, Event("login", 0, e, ""))
         /\ IF e = "OK" /\ op[p] = "send"
            THEN /\ pc' = [pc EXCEPT ![p] = "send_message"]
                 /\ UNCHANGED <<result, conn>>
            ELSE Finish(p, IF e = "OK" THEN Success
                           ELSE Failure(OuterOutcome(op[p], e), e), ConnAfter(conn[p], e))
    /\ UNCHANGED <<file, now, issued, op, account, azure, access, rtoken, newTokens,
                   firstExc, fileAtStart>>
    /\ UNCHANGED <<call, code, toolVars>>

\* server.send_message(msg) and the end of the "with" block.
SendMessage(p) ==
    /\ pc[p] = "send_message"
    /\ \E e \in {"OK", "SMTPRecipientsRefused"} :
         Finish(p, IF e = "OK" THEN Success ELSE Failure(OuterOutcome(op[p], e), e), conn[p])
    /\ UNCHANGED <<file, now, issued, op, account, azure, access, rtoken, newTokens,
                   firstExc, log, fileAtStart>>
    /\ UNCHANGED <<call, code, toolVars>>

\* ---------------------------------------------------------- the other commands
\* oauth_status reporting a refresh token whenever there is an access token.
oauth_status_by_access(f) ==
    LET tokens == load_tokens(f) IN
    IF tokens.exc # "" THEN Failure("uncaught exception", tokens.exc)
    ELSE IF ~Truthy(tokens) THEN [kind |-> "NOT_CONFIGURED", detail |-> ""]
    ELSE [kind |-> "CONFIGURED",
          detail |-> [saved_at |-> tokens.data.saved_at,
                      has_refresh_token |-> tokens.data.access_token # 0]]

\* oauth_status: what the command reports.  load_tokens is not called inside a
\* "try" here, nor is oauth_status in main: an exception ends the process.
oauth_status(f) ==
    LET tokens == load_tokens(f) IN
    IF tokens.exc # "" THEN Failure("uncaught exception", tokens.exc)
    ELSE IF ~Truthy(tokens) THEN [kind |-> "NOT_CONFIGURED", detail |-> ""]
    ELSE [kind |-> "CONFIGURED",
          detail |-> [saved_at |-> tokens.data.saved_at,
                      has_refresh_token |-> tokens.data.refresh_token # 0]]

\* One-step commands: the whole command is one read of the environment or of
\* the token file.
OneStep(p, o, a, r) ==
    /\ pc[p] = "idle"
    /\ op' = [op EXCEPT ![p] = o]
    /\ account' = [account EXCEPT ![p] = a]
    /\ fileAtStart' = [fileAtStart EXCEPT ![p] = file]
    /\ pc' = [pc EXCEPT ![p] = "done"]
    /\ result' = [result EXCEPT ![p] = r]
    /\ UNCHANGED <<file, now, issued, azure, conn, access, rtoken, newTokens,
                   firstExc, log, call, code, toolVars>>

\* The oauth-status command.
OAuthStatus(p) == OneStep(p, "status", "", oauth_status(file))

\* ---------------------------------------------------------- get_oauth_authorize_url
\* A string is a sequence of tokens: a token is one reserved character or a run
\* of unreserved ones (letters, digits, ".", "-", "_"), which urlencode copies.
AZURE_REDIRECT_URI ==
    <<"https", ":", "/", "/", "login.microsoftonline.com", "/", "common", "/",
      "oauth2", "/", "nativeclient">>

AZURE_SCOPES ==
    <<"https", ":", "/", "/", "outlook.office.com", "/", "IMAP.AccessAsUser.All", " ",
      "https", ":", "/", "/", "outlook.office.com", "/", "SMTP.Send", " ",
      "offline_access">>

\* The values AZURE_CLIENT_ID and AZURE_TENANT_ID can have in the environment.
MaxIdLen == 2
IdChars == {"app", "&", " "}
ClientIds(n) == UNION {[1..k -> IdChars] : k \in 0..n}
Tenants == {"consumers", "common"}

\* quote_plus that copies every character.
quote_plus_verbatim(c) == c

\* urllib.parse.quote_plus on one token, as urlencode applies it to keys and values.
quote_plus(c) ==
    CASE c = " " -> "+"
      [] c = ":" -> "%3A"
      [] c = "/" -> "%2F"
      [] c = "&" -> "%26"
      [] c = "=" -> "%3D"
      [] c = "+" -> "%2B"
      [] c = "%" -> "%25"
      [] c = "?" -> "%3F"
      [] OTHER   -> c

\* urllib.parse.urlencode of a list of (key, value) pairs, in the order of the dict.
urlencode(params) ==
    LET quoted(s) == [i \in 1..Len(s) |-> quote_plus(s[i])]
        pair(i) == quoted(params[i][1]) \o <<"=">> \o quoted(params[i][2])
        F[i \in 0..Len(params)] ==
            IF i = 0 THEN << >>
            ELSE IF i = 1 THEN pair(1)
            ELSE F[i - 1] \o <<"&">> \o pair(i)
    IN F[Len(params)]

\* The "state" parameter taken from the clock instead of the literal.
oauth_state_by_clock == <<ToString(12345 + now)>>

\* The "state" parameter of the authorization request.
oauth_state == <<"12345">>

\* get_oauth_authorize_url: (url, error) for the AZURE_CLIENT_ID and
\* AZURE_TENANT_ID of the environment; the url None is the empty sequence.
get_oauth_authorize_url(client_id, tenant) ==
    IF client_id = << >>
    THEN [url |-> << >>, error |-> "AZURE_CLIENT_ID not configured"]
    ELSE [url |-> <<"https", ":", "/", "/", "login.microsoftonline.com", "/", tenant, "/",
                    "oauth2", "/", "v2.0", "/", "authorize", "?">>
                  \o urlencode(<< <<<<"client_id">>, client_id>>,
                                  <<<<"response_type">>, <<"code">>>>,
                                  <<<<"redirect_uri">>, AZURE_REDIRECT_URI>>,
                                  <<<<"response_mode">>, <<"query">>>>,
                                  <<<<"scope">>, AZURE_SCOPES>>,
                                  <<<<"state">>, oauth_state>> >>),
          error |-> ""]

\* oauth_init: the result of the command.
oauth_init(client_id, tenant) ==
    LET r == get_oauth_authorize_url(client_id, tenant) IN
    IF r.error # "" THEN Failure(r.error, "")
    ELSE [kind |-> "OAUTH_INIT", detail |-> r.url]

\* The oauth-init command.
OAuthInit(p) ==
    \E client_id \in ClientIds(1), tenant \in Tenants :
        OneStep(p, "init", "", oauth_init(client_id, tenant))

\* The draft command: get_credentials and nothing else.
DraftEmail(p) ==
    \E a \in AccountIds \cup UnknownIds, address \in {"", "user@example.org"},
       password \in {<< >>, <<"a">>} :
      LET error == get_credentials(a, address, password).error IN
      OneStep(p, "draft", a,
              IF error # NoResult THEN error
              ELSE [kind |-> "PENDING_VALIDATION", detail |-> address])

\* The process prints its result and exits; the slot is free for the next command.
Return(p) ==
    /\ pc[p] = "done"
    /\ pc' = [pc EXCEPT ![p] = "idle"]
    /\ op' = [op EXCEPT ![p] = "none"]
    /\ account' = [account EXCEPT ![p] = ""]
    /\ azure' = [azure EXCEPT ![p] = FALSE]
    /\ conn' = [conn EXCEPT ![p] = "none"]
    /\ access' = [access EXCEPT ![p] = 0]
    /\ rtoken' = [rtoken EXCEPT ![p] = 0]
    /\ newTokens' = [newTokens EXCEPT ![p] = NoTokensDict]
    /\ firstExc' = [firstExc EXCEPT ![p] = ""]
    /\ result' = [result EXCEPT ![p] = NoResult]
    /\ log' = [log EXCEPT ![p] = << >>]
    /\ fileAtStart' = [fileAtStart EXCEPT ![p] = MissingFile]
    /\ UNCHANGED <<file, now, issued>>
    /\ code' = [code EXCEPT ![p] = 0]
    /\ UNCHANGED <<call, toolVars>>

\* Time passes.
Tick ==
    /\ now < MaxClock
    /\ now' = now + 1
    /\ UNCHANGED <<file, issued, pc, op, account, azure, conn, access, rtoken,
                   newTokens, firstExc, result, log, fileAtStart>>
    /\ UNCHANGED <<call, code, toolVars>>

\* ---------------------------------------------------------- specifications
\* One invocation at a time (the single-operator pattern): every account.
Next ==
    \/ Tick
    \/ StartSession(1, {"read", "send"}, AccountIds \cup UnknownIds)
    \/ StartCallback(1)
    \/ Exchange(1)
    \/ Connect(1)
    \/ StartTls(1)
    \/ GetToken(1)
    \/ FirstAuth(1)
    \/ Reload(1)
    \/ Refresh(1)
    \/ SaveOpen(1)
    \/ SaveWrite(1)
    \/ SecondAuth(1)
    \/ Login(1)
    \/ SendMessage(1)
    \/ OAuthStatus(1)
    \/ OAuthInit(1)
    \/ DraftEmail(1)
    \/ Return(1)

Spec == Init /\ [][Next]_vars

\* A step of a command that has started: every step is a blocking call made by
\* a sequential program, so a started command keeps taking steps as long as
\* each call returns.
SessionStep(p) ==
    \/ Exchange(p) \/ Connect(p) \/ StartTls(p) \/ GetToken(p) \/ FirstAuth(p) \/ Reload(p)
    \/ Refresh(p) \/ SaveOpen(p) \/ SaveWrite(p) \/ SecondAuth(p) \/ Login(p)
    \/ SendMessage(p)

\* Spec with every network call and file access of a started command returning.
SpecLive == Init /\ [][Next]_vars /\ WF_vars(SessionStep(1))

\* Two invocations on the OAuth account, interleaved freely: the read path in
\* both, oauth-callback in the first.
NextConc ==
    \/ StartCallback(1)
    \/ Exchange(1)
    \/ \E p \in Procs :
        \/ StartSession(p, {"read"}, {"hotmail"})
        \/ Connect(p)
        \/ GetToken(p)
        \/ FirstAuth(p)
        \/ Reload(p)
        \/ Refresh(p)
        \/ SaveOpen(p)
        \/ SaveWrite(p)
        \/ SecondAuth(p)
        \/ Return(p)

SpecConc == Init /\ [][NextConc]_vars

\* The read path in the first slot and the send path or oauth-status in the
\* second, on the OAuth account, one invocation at a time in either order,
\* after oauth-callback: a slot takes steps while the other is idle or has ended.
InTurn(p) == \A q \in Procs \ {p} : pc[q] \in {"idle", "done"}

NextPair ==
    \/ InTurn(1) /\ StartCallback(1)
    \/ InTurn(1) /\ Exchange(1)
    \/ InTurn(1) /\ StartSession(1, {"read"}, {"hotmail"})
    \/ InTurn(2) /\ StartSession(2, {"send"}, {"hotmail"})
    \/ InTurn(2) /\ SendMessage(2)
    \/ InTurn(2) /\ OAuthStatus(2)
    \/ InTurn(2) /\ StartTls(2)
    \/ \E p \in Procs :
          \/ InTurn(p) /\ Connect(p)
          \/ InTurn(p) /\ GetToken(p)
          \/ InTurn(p) /\ FirstAuth(p)
          \/ InTurn(p) /\ Reload(p)
          \/ InTurn(p) /\ Refresh(p)
          \/ InTurn(p) /\ SaveOpen(p)
          \/ InTurn(p) /\ SaveWrite(p)
          \/ InTurn(p) /\ SecondAuth(p)
          \/ InTurn(p) /\ Return(p)

SpecPair == Init /\ [][NextPair]_vars

\* The mail server as the provider's tokens make it behave: the access token in
\* the token file has expired at clock reading t (expires_in after it was
\* saved), and an expired token stays expired.
TokenExpired(f, t) == f.kind = "json" /\ t >= f.data.saved_at + f.data.expires_in

\* The answer invocation p has just received to mail.authenticate /
\* server.auth: never "OK" for an expired token, never an authentication
\* rejection for one that has not expired.
ServerAnswer(p) ==
    LET e == log'[p][Len(log'[p])] IN
    IF TokenExpired(file, now) THEN e.out # "OK" ELSE ~IsAuthRejection(e.out)

\* One invocation at a time on the OAuth account (sessions, oauth-callback,
\* oauth-status), the mail server rejecting exactly the expired tokens.
NextExpiry ==
    \/ Tick
    \/ StartSession(1, {"read", "send"}, {"hotmail"})
    \/ StartCallback(1)
    \/ Exchange(1)
    \/ Connect(1)
    \/ StartTls(1)
    \/ GetToken(1)
    \/ FirstAuth(1) /\ ServerAnswer(1)
    \/ Reload(1)
    \/ Refresh(1)
    \/ SaveOpen(1)
    \/ SaveWrite(1)
    \/ SecondAuth(1) /\ ServerAnswer(1)
    \/ SendMessage(1)
    \/ OAuthStatus(1)
    \/ Return(1)

SpecExpiry == Init /\ [][NextExpiry]_vars

\* ---------------------------------------------------------- get_credentials alone
\* The secrets of at most n characters.
Secrets(n) == UNION {[1..k -> Chars] : k \in 0..n}

\* The environment get_credentials may find: any identifier on the command
\* line, the address variable unset or set, the secret variable unset or set to
\* any secret.
InitCred ==
    /\ InitBase
    /\ \E a \in AccountIds \cup UnknownIds, address \in {"", "user@example.org"},
          password \in Secrets(MaxSecretLen) :
         call = [fn |-> "get_credentials", args |-> <<a, address, password>>,
                 ret |-> get_credentials("", "", << >>), returned |-> FALSE]

\* address, password, error = get_credentials(account)
ApplyGetCredentials ==
    /\ call.fn = "get_credentials" /\ ~call.returned
    /\ call' = [call EXCEPT !.ret = get_credentials(call.args[1], call.args[2],
                                                    call.args[3]),
                            !.returned = TRUE]
    /\ UNCHANGED <<file, now, issued, pc, op, account, azure, conn, access, rtoken,
                   newTokens, firstExc, result, log, fileAtStart>>
    /\ UNCHANGED <<code, toolVars>>

NextCred == ApplyGetCredentials

SpecCred == InitCred /\ [][NextCred]_vars

\* ---------------------------------------------------------- get_oauth_authorize_url alone
\* The number of times the function is called under one configuration.
MaxCalls == 2

\* Any configuration of the environment and any token file.
InitUrl ==
    /\ InitBase
    /\ \E client_id \in ClientIds(MaxIdLen), tenant \in Tenants :
         call = [fn |-> "get_oauth_authorize_url", args |-> <<client_id, tenant>>,
                 ret |-> << >>, returned |-> FALSE]

\* url, error = get_oauth_authorize_url(); the time of each call is noted after
\* the configuration.
ApplyAuthorizeUrl ==
    /\ call.fn = "get_oauth_authorize_url" /\ Len(call.ret) < MaxCalls
    /\ call' = [call EXCEPT !.args = Append(@, now),
                            !.ret = Append(@, get_oauth_authorize_url(call.args[1],
                                                                      call.args[2])),
                            !.returned = TRUE]
    /\ UNCHANGED <<file, now, issued, pc, op, account, azure, conn, access, rtoken,
                   newTokens, firstExc, result, log, fileAtStart>>
    /\ UNCHANGED <<code, toolVars>>

NextUrl == Tick \/ ApplyAuthorizeUrl

SpecUrl == InitUrl /\ [][NextUrl]_vars

\* ---------------------------------------------------------- oauth_callback and its url
\* Any url on the command line of oauth-callback, any token file.
InitCallback ==
    /\ InitBase
    /\ \E url \in CallbackUrls(MaxParams) :
         call = [fn |-> "oauth_callback", args |-> <<url>>, ret |-> << >>,
                 returned |-> FALSE]

\* The oauth-callback command, run any number of times with that url.
NextCallback ==
    \/ Tick
    \/ StartCallback(1)
    \/ Exchange(1)
    \/ SaveOpen(1)
    \/ SaveWrite(1)
    \/ Return(1)

SpecCallback == InitCallback /\ [][NextCallback]_vars

\* ---------------------------------------------------------- the INBOX and move_email
\* The session state, which the mailbox commands below leave alone.
sessionVars == <<file, now, issued, pc, op, account, azure, conn, access, rtoken,
                 newTokens, firstExc, result, log, fileAtStart, call, code>>

\* A message of the INBOX: uid names it for good, its sequence number is its
\* position in inbox; unread is the absence of \Seen, deleted the \Deleted flag.
MaxMsgs == 3
Inboxes(n) ==
    UNION {{[i \in 1..k |-> [uid |-> i, unread |-> un[i], deleted |-> de[i]]] :
               un \in [1..k -> BOOLEAN], de \in [1..k -> BOOLEAN]} : k \in 0..n}

\* The folders of mail_sorter.FOLDERS.
FOLDERS(category) ==
    CASE category = "newsletter" -> "_Newsletters"
      [] category = "spam"       -> "_Spam"
      [] category = "promo"      -> "_Promotions"
      [] OTHER                   -> ""

\* What the server answers to COPY / STORE for a sequence number: "NO" when
\* the number names no message; "error" is any exception of imaplib (a BAD
\* answer, a lost connection).
ImapOutcomes(box, id) ==
    IF id \in 1..Len(box) THEN {"OK", "NO", "error"} ELSE {"NO", "error"}

\* mail.store(email_id, '+FLAGS', '\\Deleted') on the server.
store_deleted(box, id) == [box EXCEPT ![id].deleted = TRUE]

\* mail.expunge() on the server: every message flagged \Deleted leaves the
\* mailbox and the later ones take lower sequence numbers.
expunge(box) == SelectSeq(box, LAMBDA m : ~m.deleted)

\* move_email(email_id, folder, account) is entered.
MoveBegin(id, folder) ==
    mv' = [pc |-> "connect", email_id |-> id, folder |-> folder, result |-> "",
           before |-> inbox, steps |-> << >>]

MoveEnd(r, step) ==
    mv' = [mv EXCEPT !.pc = "done", !.result = r, !.steps = Append(@, step)]

\* The move command given on the command line.
MoveStart(ids, folders) ==
    /\ mv.pc = "idle" /\ sorter.pc = "idle"
    /\ \E id \in ids, folder \in folders : MoveBegin(id, folder)
    /\ UNCHANGED <<sessionVars, inbox, archive, sorter, poll>>

\* mail, error = connect_imap(account); then mail.select("INBOX") and
\* mail.create(folder), whose answers are not looked at.
MoveConnect ==
    /\ mv.pc = "connect"
    /\ \E out \in {"OK", "failure", "error"} :
         IF out = "OK" THEN mv' = [mv EXCEPT !.pc = "copy", !.steps = Append(@, <<"connect", out>>)]
         ELSE MoveEnd(out, <<"connect", out>>)
    /\ UNCHANGED <<sessionVars, inbox, archive, sorter, poll>>

\* status, _ = mail.copy(email_id.encode(), folder)
MoveCopy ==
    /\ mv.pc = "copy"
    /\ \E out \in ImapOutcomes(inbox, mv.email_id) :
         IF out = "OK"
         THEN /\ archive' = archive \cup {<<inbox[mv.email_id].uid, mv.folder>>}
              /\ mv' = [mv EXCEPT !.pc = "store", !.steps = Append(@, <<"copy", out>>)]
         ELSE /\ MoveEnd(IF out = "NO" THEN "Failed to copy email" ELSE "error",
                         <<"copy", out>>)
              /\ UNCHANGED archive
    /\ UNCHANGED <<sessionVars, inbox, sorter, poll>>

\* mail.store(email_id.encode(), '+FLAGS', '\\Deleted'): the answer is not looked at.
MoveStore ==
    /\ mv.pc = "store"
    /\ \E out \in ImapOutcomes(inbox, mv.email_id) :
         /\ inbox' = IF out = "OK" THEN store_deleted(inbox, mv.email_id) ELSE inbox
         /\ IF out = "error" THEN MoveEnd("error", <<"store", out>>)
            ELSE mv' = [mv EXCEPT !.pc = "expunge", !.steps = Append(@, <<"store", out>>)]
    /\ UNCHANGED <<sessionVars, archive, sorter, poll>>

\* mail.expunge(); mail.logout(); return success.
MoveExpunge ==
    /\ mv.pc = "expunge"
    /\ \E out \in {"OK", "error"} :
         /\ inbox' = IF out = "OK" THEN expunge(inbox) ELSE inbox
         /\ MoveEnd(IF out = "OK" THEN "success" ELSE "error", <<"expunge", out>>)
    /\ UNCHANGED <<sessionVars, archive, sorter, poll>>

\* The process of the move command given on the command line ends.
MoveReturn ==
    /\ mv.pc = "done" /\ sorter.pc = "idle"
    /\ mv' = NoMove
    /\ UNCHANGED <<sessionVars, inbox, archive, sorter, poll>>

\* Any INBOX, the move command run any number of times on it.
InitMove ==
    /\ InitSession /\ call = NoCall
    /\ inbox \in Inboxes(MaxMsgs)
    /\ archive = {} /\ mv = NoMove /\ sorter = NoSort /\ poll = NoPoll

NextMove ==
    \/ MoveStart(1..(MaxMsgs + 1), {"_Newsletters", "_Spam"})
    \/ MoveConnect
    \/ MoveCopy
    \/ MoveStore
    \/ MoveExpunge
    \/ MoveReturn

SpecMove == InitMove /\ [][NextMove]_vars

\* ---------------------------------------------------------- list_emails / search_emails
\* The Python slice s[k:], k negative counting from the end.
slice_from(s, k) ==
    LET n == Len(s)
        start == IF k < 0 THEN (IF n + k < 0 THEN 0 ELSE n + k)
                 ELSE (IF k > n THEN n ELSE k)
    IN SubSeq(s, start + 1, n)

\* email_ids = email_ids[-limit:] if len(email_ids) > limit else email_ids
limit_ids(email_ids, limit) ==
    IF Len(email_ids) > limit THEN slice_from(email_ids, 0 - limit) ELSE email_ids

\* email_ids.reverse()
reversed(s) == [i \in 1..Len(s) |-> s[Len(s) + 1 - i]]

\* mail.search(None, search_string): the sequence numbers of the matching
\* messages in increasing order; UNSEEN stands for every criterion.
search_ids(box, unread_only) ==
    SelectSeq([i \in 1..Len(box) |-> i], LAMBDA i : ~unread_only \/ box[i].unread)

\* The ids list_emails and search_emails return, every fetch answering OK.
list_email_ids(box, unread_only, limit) ==
    reversed(limit_ids(search_ids(box, unread_only), limit))

\* mail.fetch(email_id, "(RFC822 FLAGS)") in a mailbox selected read-write
\* sets \Seen on the message.
fetched(box, ids) ==
    [i \in 1..Len(box) |->
        IF \E k \in 1..Len(ids) : ids[k] = i THEN [box[i] EXCEPT !.unread = FALSE]
        ELSE box[i]]

\* The values of --limit (argparse type=int takes any integer).
Limits == (0 - 1)..(MaxMsgs + 1)

\* Any INBOX, any --unread and --limit on the command line of list / search.
InitList ==
    /\ InitSession
    /\ inbox \in Inboxes(MaxMsgs)
    /\ archive = {} /\ mv = NoMove /\ sorter = NoSort /\ poll = NoPoll
    /\ \E unread_only \in BOOLEAN, limit \in Limits :
         call = [fn |-> "list_emails", args |-> <<inbox, unread_only, limit>>,
                 ret |-> << >>, returned |-> FALSE]

\* result = list_emails(...) / search_emails(...): the ids of result["emails"].
ApplyList ==
    /\ call.fn = "list_emails" /\ ~call.returned
    /\ call' = [call EXCEPT !.ret = list_email_ids(inbox, call.args[2], call.args[3]),
                            !.returned = TRUE]
    /\ inbox' = fetched(inbox, list_email_ids(inbox, call.args[2], call.args[3]))
    /\ UNCHANGED <<file, now, issued, pc, op, account, azure, conn, access, rtoken,
                   newTokens, firstExc, result, log, fileAtStart, code>>
    /\ UNCHANGED <<archive, mv, sorter, poll>>

NextList == ApplyList

SpecList == InitList /\ [][NextList]_vars

\* ---------------------------------------------------------- mail_sorter.sort_account
\* The categories of the classifier: those of FOLDERS, those of INBOX_CATEGORIES,
\* and "other" for any other word the model may answer.
Categories == {"newsletter", "spam", "promo", "urgent", "important", "normal", "other"}

\* list_emails(account, unread_only=True, limit=30) as sort_account sees it: the
\* sequence numbers of the unread messages, newest first, each with the message
\* it named when it was listed.
ListedUnread(box) ==
    LET ids == list_email_ids(box, TRUE, 30)
    IN [k \in 1..Len(ids) |-> [id |-> ids[k], uid |-> box[ids[k]].uid]]

\* What classify_emails_llm can return for the listed emails: a dictionary from
\* ids of the list to categories, in the order of the keys of the answer of the
\* model (classify_emails_basic gives every id, in the order of the list).
Classifications(emails) ==
    LET ids == {emails[i].id : i \in 1..Len(emails)} IN
    UNION {{c \in [1..k -> ids \X Categories] :
               \A i, j \in 1..k : i # j => c[i][1] # c[j][1]} : k \in 0..Len(emails)}

\* result = run_mail_command(["list", "--account", account, "--unread", "--limit", "30"])
SortList ==
    /\ sorter.pc = "idle" /\ mv.pc = "idle"
    /\ \E ok \in BOOLEAN :
         IF ~ok
         THEN /\ sorter' = [sorter EXCEPT !.pc = "done", !.error_count = 1]
              /\ UNCHANGED inbox
         ELSE /\ sorter' = [sorter EXCEPT !.emails = ListedUnread(inbox),
                                           !.pc = IF ListedUnread(inbox) = << >> THEN "done"
                                                  ELSE "classify"]
              /\ inbox' = fetched(inbox, list_email_ids(inbox, TRUE, 30))
    /\ UNCHANGED <<sessionVars, archive, mv, poll>>

\* classifications = classify_emails_llm(emails)
SortClassify ==
    /\ sorter.pc = "classify"
    /\ \E c \in Classifications(sorter.emails) :
         sorter' = [sorter EXCEPT !.classifications = c, !.pc = "loop"]
    /\ UNCHANGED <<sessionVars, inbox, archive, mv, poll>>

\* for email_id, category in classifications.items(): if category in FOLDERS:
\* run_mail_command(["move", ..., "--id", email_id, "--folder", folder])
SortNext ==
    /\ sorter.pc = "loop"
    /\ IF sorter.next > Len(sorter.classifications)
       THEN /\ sorter' = [sorter EXCEPT !.pc = "done"]
            /\ UNCHANGED mv
       ELSE LET item == sorter.classifications[sorter.next] IN
            IF FOLDERS(item[2]) # ""
            THEN /\ MoveBegin(item[1], FOLDERS(item[2]))
                 /\ sorter' = [sorter EXCEPT !.pc = "moving"]
            ELSE /\ sorter' = [sorter EXCEPT !.next = @ + 1]
                 /\ UNCHANGED mv
    /\ UNCHANGED <<sessionVars, inbox, archive, poll>>

\* if move_result.get("success"): sorted_count += 1, else error_count += 1.
\* moves notes, for each move that copied a message, the id it was given and
\* the message it copied.
SortMoved ==
    /\ sorter.pc = "moving" /\ mv.pc = "done"
    /\ sorter' = [sorter EXCEPT
          !.pc = "loop", !.next = @ + 1,
          !.sorted_count = IF mv.result = "success" THEN @ + 1 ELSE @,
          !.error_count = IF mv.result = "success" THEN @ ELSE @ + 1,
          !.moves = IF \E i \in 1..Len(mv.steps) : mv.steps[i] = <<"copy", "OK">>
                    THEN Append(@, [id |-> mv.email_id, uid |-> mv.before[mv.email_id].uid])
                    ELSE @]
    /\ mv' = NoMove
    /\ UNCHANGED <<sessionVars, inbox, archive, poll>>

\* Any INBOX in which no message is flagged \Deleted, sort_account run once.
InitSort ==
    /\ InitSession /\ call = NoCall
    /\ inbox \in {b \in Inboxes(MaxMsgs) : \A i \in 1..Len(b) : ~b[i].deleted}
    /\ archive = {} /\ mv = NoMove /\ sorter = NoSort /\ poll = NoPoll

NextSort ==
    \/ SortList
    \/ SortClassify
    \/ SortNext
    \/ MoveConnect
    \/ MoveCopy
    \/ MoveStore
    \/ MoveExpunge
    \/ SortMoved

SpecSort == InitSort /\ [][NextSort]_vars

\* ---------------------------------------------------------- replicate_image.wait_for_prediction
MAX_POLL_ATTEMPTS == 150

\* The statuses a prediction can carry: the three pending ones, the three final
\* ones, one the script does not know, and None for a reply without the key.
Pending == {"starting", "processing", "queued"}
Statuses == Pending \cup {"succeeded", "failed", "canceled", "aborted", "None"}

\* api_request: the decoded reply, or HTTPError (caught: message and
\* sys.exit(1)), or URLError / a socket timeout after 300 s (not caught).
ApiAnswers == Statuses \cup {"HTTPError", "URLError"}

\* The loop test with the bound compared one poll late.
timed_out_late(attempts) == attempts > MAX_POLL_ATTEMPTS

\* if attempts >= MAX_POLL_ATTEMPTS
timed_out(attempts) == attempts >= MAX_POLL_ATTEMPTS

\* api_request reached the except clause, or raised past it.
ApiFailed(answer) ==
    IF answer = "HTTPError" THEN [poll EXCEPT !.pc = "exit", !.error = "API Error"]
    ELSE [poll EXCEPT !.pc = "raised", !.error = "URLError"]

\* run: prediction = api_request("POST", ...); a prediction that has not
\* succeeded yet is handed to wait_for_prediction, which starts at attempts = 0.
PollCreate ==
    /\ poll.pc = "idle"
    /\ \E answer \in ApiAnswers :
         poll' = IF answer \in Statuses
                 THEN [poll EXCEPT !.status = answer, !.attempts = 0,
                                   !.pc = IF answer = "succeeded" THEN "skipped"
                                          ELSE "waiting"]
                 ELSE ApiFailed(answer)
    /\ UNCHANGED <<sessionVars, inbox, archive, mv, sorter>>

\* The loop body when no poll is allowed any more.
PollTimeout ==
    /\ poll.pc = "waiting"
    /\ poll.status \in Pending
    /\ timed_out(poll.attempts)
    /\ poll' = [poll EXCEPT !.pc = "exit", !.error = "Prediction timed out"]
    /\ UNCHANGED <<sessionVars, inbox, archive, mv, sorter>>

\* The loop body otherwise: sleep, count the attempt, ask for the prediction.
PollRequest ==
    /\ poll.pc = "waiting"
    /\ poll.status \in Pending
    /\ ~timed_out(poll.attempts)
    /\ \E answer \in ApiAnswers :
         poll' = IF answer \in Statuses
                 THEN [poll EXCEPT !.status = answer, !.attempts = @ + 1]
                 ELSE [ApiFailed(answer) EXCEPT !.attempts = @ + 1]
    /\ UNCHANGED <<sessionVars, inbox, archive, mv, sorter>>

\* After the loop: the three tests on the status, then return prediction.
PollFinish ==
    /\ poll.pc = "waiting"
    /\ poll.status \notin Pending
    /\ poll' = IF poll.status = "failed"
               THEN [poll EXCEPT !.pc = "exit", !.error = "Prediction failed"]
               ELSE IF poll.status = "canceled"
               THEN [poll EXCEPT !.pc = "exit", !.error = "Prediction was canceled"]
               ELSE IF poll.status # "succeeded"
               THEN [poll EXCEPT !.pc = "exit", !.error = "Unexpected prediction status"]
               ELSE [poll EXCEPT !.pc = "returned"]
    /\ UNCHANGED <<sessionVars, inbox, archive, mv, sorter>>

InitPoll == InitBase /\ call = NoCall

NextPoll == PollCreate \/ PollTimeout \/ PollRequest \/ PollFinish

\* The script is one sequential process and every api_request returns or raises
\* within its urlopen timeout, so a step that can be taken is taken.
SpecPoll == InitPoll /\ [][NextPoll]_vars /\ WF_vars(NextPoll)

\* ---------------------------------------------------------- generate_oauth2_string alone
\* A str is a sequence of code points, a bytes object a sequence of 0..255.
\* str.encode(): UTF-8, here for code points below 2048.
RECURSIVE utf8_encode(_)
utf8_encode(s) ==
    IF s = << >> THEN << >>
    ELSE (IF s[1] < 128 THEN <<s[1]>>
          ELSE <<192 + (s[1] \div 64), 128 + (s[1] % 64)>>) \o utf8_encode(Tail(s))

\* The alphabet of base64.b64encode, index 0 first.
B64Alphabet ==
    <<"A", "B", "C", "D", "E", "F", "G", "H", "I", "J", "K", "L", "M", "N", "O", "P",
      "Q", "R", "S", "T", "U", "V", "W", "X", "Y", "Z", "a", "b", "c", "d", "e", "f",
      "g", "h", "i", "j", "k", "l", "m", "n", "o", "p", "q", "r", "s", "t", "u", "v",
      "w", "x", "y", "z", "0", "1", "2", "3", "4", "5", "6", "7", "8", "9", "+", "/">>

\* b64encode that takes the sextets of every group from its first byte only.
b64encode_first_byte(b) ==
    LET n == Len(b)
        at(i) == IF i <= n THEN b[i] ELSE 0
        char(i) ==
            LET k == (i - 1) \div 4
                j == (i - 1) % 4
                v == at(3 * k + 1) * 65536
                x == CASE j = 0 -> v \div 262144
                       [] j = 1 -> (v \div 4096) % 64
                       [] j = 2 -> (v \div 64) % 64
                       [] OTHER -> v % 64
            IN IF j >= 2 /\ 3 * k + j > n THEN "=" ELSE B64Alphabet[x + 1]
    IN [i \in 1..(4 * ((n + 2) \div 3)) |-> char(i)]

\* base64.b64encode(b).decode(): three bytes make four characters, the last
\* group is filled with zero bits and marked with "=".
b64encode(b) ==
    LET n == Len(b)
        at(i) == IF i <= n THEN b[i] ELSE 0
        char(i) ==
            LET k == (i - 1) \div 4
                j == (i - 1) % 4
                v == at(3 * k + 1) * 65536 + at(3 * k + 2) * 256 + at(3 * k + 3)
                x == CASE j = 0 -> v \div 262144
                       [] j = 1 -> (v \div 4096) % 64
                       [] j = 2 -> (v \div 64) % 64
                       [] OTHER -> v % 64
            IN IF j >= 2 /\ 3 * k + j > n THEN "=" ELSE B64Alphabet[x + 1]
    IN [i \in 1..(4 * ((n + 2) \div 3)) |-> char(i)]

\* The f-string f"user={username}\x01auth=Bearer {access_token}\x01\x01".
oauth2_fstring(username, access_token) ==
    <<117, 115, 101, 114, 61>> \o username \o <<1>>
    \o <<97, 117, 116, 104, 61, 66, 101, 97, 114, 101, 114, 32>> \o access_token \o <<1, 1>>

\* generate_oauth2_string(username, access_token, encode_base64)
generate_oauth2_string(username, access_token, encode_base64) ==
    LET auth_string == oauth2_fstring(username, access_token) IN
    IF encode_base64 THEN b64encode(utf8_encode(auth_string)) ELSE auth_string

\* The addresses and access tokens of at most n characters: "a", "@" and
\* e-acute in an address, "x" and "." in a token.
MaxTextLen == 2
Usernames(n) == UNION {[1..k -> {97, 64, 233}] : k \in 0..n}
AccessTokens(n) == UNION {[1..k -> {120, 46}] : k \in 0..n}

InitBearer ==
    /\ InitBase
    /\ \E username \in Usernames(MaxTextLen), access_token \in AccessTokens(MaxTextLen),
          encode_base64 \in BOOLEAN :
         call = [fn |-> "generate_oauth2_string",
                 args |-> <<username, access_token, encode_base64>>,
                 ret |-> << >>, returned |-> FALSE]

\* auth_string = generate_oauth2_string(address, access_token, encode_base64=...)
ApplyGenerate ==
    /\ call.fn = "generate_oauth2_string" /\ ~call.returned
    /\ call' = [call EXCEPT !.ret = <<generate_oauth2_string(call.args[1], call.args[2],
                                                             call.args[3])>>,
                            !.returned = TRUE]
    /\ UNCHANGED <<file, now, issued, pc, op, account, azure, conn, access, rtoken,
                   newTokens, firstExc, result, log, fileAtStart>>
    /\ UNCHANGED <<code, toolVars>>

\* The refresh handler of connect_imap and send_email:
\* auth_string = generate_oauth2_string(address, new_tokens["access_token"], encode_base64=False)
\* with the access token of the refreshed token set.
ApplyRegenerate ==
    /\ call.fn = "generate_oauth2_string" /\ call.returned /\ Len(call.ret) = 1
    /\ \E new_access_token \in AccessTokens(MaxTextLen) \ {<< >>} :
         call' = [call EXCEPT !.args = Append(@, new_access_token),
                              !.ret = Append(@, generate_oauth2_string(call.args[1],
                                                                       new_access_token,
                                                                       FALSE))]
    /\ UNCHANGED <<file, now, issued, pc, op, account, azure, conn, access, rtoken,
                   newTokens, firstExc, result, log, fileAtStart>>
    /\ UNCHANGED <<code, toolVars>>

NextBearer == ApplyGenerate \/ ApplyRegenerate

SpecBearer == InitBearer /\ [][NextBearer]_vars

\* ---------------------------------------------------------- properties
Auths(p)     == SelectSeq(log[p], LAMBDA x : x.ev = "auth")
Attempts(p)  == SelectSeq(log[p], LAMBDA x : x.ev \in {"auth", "login"})
Refreshes(p) == SelectSeq(log[p], LAMBDA x : x.ev = "refresh")
Writes(p)    == SelectSeq(log[p], LAMBDA x : x.ev \in {"truncate", "saved"})

\* p runs openSession (either role) for the OAuth account.
OAuthSession(p) == op[p] \in {"read", "send"} /\ use_oauth(account[p])
Failed(p) == pc[p] = "done" /\ result[p].kind \notin {"", "success"}

\* The first attempt was refused by the server and a refresh token was stored.
RejectedWithRefreshToken(p) ==
    /\ OAuthSession(p)
    /\ IsAuthRejection(firstExc[p])
    /\ HasRefreshToken(fileAtStart[p])

\* The refresh exchange of this call returned a token set with an access token.
RefreshReturnedToken(p) ==
    /\ Len(Refreshes(p)) = 1
    /\ Refreshes(p)[1].out = "OK"
    /\ newTokens[p].access_token # 0

\* Two attempts, old token then refreshed token, and the refreshed set stored.
TwoAttemptsAndStored(p) ==
    /\ Len(Auths(p)) = 2
    /\ Auths(p)[1].tok = fileAtStart[p].data.access_token
    /\ RefreshReturnedToken(p)
    /\ Auths(p)[2].tok = newTokens[p].access_token
    /\ file = JsonFile(newTokens[p])
    /\ file # fileAtStart[p]

\* C1 as stated: a rejected first attempt with a refresh token stored always ends
\* with exactly two attempts and the refreshed TokenSet in the store.
C1_Original ==
    \A p \in Procs :
        (pc[p] = "done" /\ RejectedWithRefreshToken(p)) => TwoAttemptsAndStored(p)

\* C1 amended: when the first attempt is rejected, a refresh token is stored and
\* the refresh exchange returns a token set with an access token, exactly two
\* authentication attempts are made, the first with the stored access token and
\* the second with the refreshed one, and the store then holds the refreshed
\* TokenSet.
C1_TwoAttempts ==
    \A p \in Procs :
        (pc[p] = "done" /\ RejectedWithRefreshToken(p) /\ RefreshReturnedToken(p))
            => TwoAttemptsAndStored(p)

C1_Witness ==
    \E p \in Procs :
        /\ pc[p] = "done" /\ RejectedWithRefreshToken(p) /\ RefreshReturnedToken(p)
        /\ op[p] = "send" /\ result[p] = Success
        /\ Auths(p)[1].tok = 1 /\ Auths(p)[2].tok = 2 /\ file.data.refresh_token = 2

\* C2: in one call there are at most one refresh exchange and at most two
\* authentication attempts, and a failed second attempt is the last thing the
\* call does: it ends in failure.
C2_OneRefreshTwoAttempts ==
    \A p \in Procs :
        /\ Len(Refreshes(p)) <= 1
        /\ Len(Attempts(p)) <= 2
        /\ (Len(Auths(p)) = 2 /\ Auths(p)[2].out # "OK")
              => (Failed(p) /\ log[p][Len(log[p])].ev = "auth")

C2_Witness ==
    \E p \in Procs :
        /\ Len(Auths(p)) = 2 /\ Auths(p)[2].out = "IMAP4.error"
        /\ Len(Refreshes(p)) = 1 /\ Failed(p)

\* C3 as stated: with an access token and no refresh token stored, a rejected
\* first attempt returns the no-refresh-token failure, in either role, with no
\* refresh exchange and no second attempt.
C3_NoRefreshTokenFailure ==
    \A p \in Procs :
        ( /\ pc[p] = "done" /\ OAuthSession(p)
          /\ IsAuthRejection(firstExc[p])
          /\ fileAtStart[p].kind = "json"
          /\ fileAtStart[p].data.access_token # 0
          /\ fileAtStart[p].data.refresh_token = 0 )
        => ( /\ result[p].kind = "OAuth failed and no refresh token"
             /\ Refreshes(p) = << >>
             /\ Len(Auths(p)) = 1 )

\* C4 as stated: when the first attempt ends with an error that is not a refusal
\* by the server, the call makes no refresh exchange, writes nothing to the store
\* and ends in failure.
C4_RefreshOnlyAfterRejection ==
    \A p \in Procs :
        (OAuthSession(p) /\ firstExc[p] \notin {"", "OK"} /\ ~IsAuthRejection(firstExc[p]))
        => ( /\ Refreshes(p) = << >>
             /\ Writes(p) = << >>
             /\ file = fileAtStart[p]
             /\ pc[p] = "done" => Failed(p) )

RefreshFailedCall(p) ==
    /\ OAuthSession(p) /\ pc[p] = "done"
    /\ IsAuthRejection(firstExc[p])
    /\ rtoken[p] # 0
    /\ (Refreshes(p) = << >> \/ Refreshes(p)[1].out # "OK")

\* C6: when the first attempt is rejected, a refresh token is stored and the
\* refresh exchange fails, the call returns the refresh failure with the
\* provider's detail, makes no second attempt and leaves the store as it was.
C6_RefreshFailed ==
    \A p \in Procs :
        RefreshFailedCall(p) =>
            /\ result[p].kind = "Token refresh failed"
            /\ result[p].detail = (IF Refreshes(p) = << >>
                                   THEN "Azure OAuth credentials not configured"
                                   ELSE Refreshes(p)[1].detail)
            /\ Len(Auths(p)) = 1
            /\ Writes(p) = << >>
            /\ file = fileAtStart[p]

C6_Witness ==
    \E p \in Procs :
        /\ RefreshFailedCall(p) /\ op[p] = "send"
        /\ Len(Refreshes(p)) = 1 /\ Refreshes(p)[1].out = "HTTPError"
        /\ result[p].detail = "invalid_grant"

\* C7: a second attempt is issued only after a refresh exchange that succeeded
\* and after its token set was written to the store, and it carries the token
\* that was written; there is no attempt while the refresh or the save is under
\* way, and none after a failed refresh.
C7_RefreshBeforeRetry ==
    \A p \in Procs :
        OAuthSession(p) =>
            /\ \A i \in 1..Len(log[p]) :
                  (log[p][i].ev = "auth" /\ \E h \in 1..(i-1) : log[p][h].ev = "auth")
                  => \E k \in 1..(i-1), j \in 1..(i-1) :
                        /\ k < j
                        /\ log[p][k].ev = "refresh" /\ log[p][k].out = "OK"
                        /\ log[p][j].ev = "saved" /\ log[p][j].tok = log[p][i].tok
            /\ pc[p] = "auth2" => (file = JsonFile(newTokens[p])
                                    /\ access[p] = newTokens[p].access_token)
            /\ pc[p] \in {"reload", "refresh", "save_open", "save_write", "auth2"}
                  => Len(Auths(p)) = 1
            /\ (Refreshes(p) # << >> /\ Refreshes(p)[1].out # "OK")
                  => (Len(Auths(p)) = 1 /\ pc[p] = "done")

C7_Witness ==
    \E p \in Procs :
        /\ OAuthSession(p) /\ op[p] = "read" /\ pc[p] = "done"
        /\ Len(Auths(p)) = 2 /\ Len(log[p]) = 5

\* C8 as stated: a refresh exchanges the refresh token that is in the store, and
\* after a successful refresh the store holds the returned token set and still
\* holds a refresh token.
C8_SequentialRefreshesValid ==
    \A p \in Procs :
        ( /\ OAuthSession(p)
          /\ RefreshReturnedToken(p)
          /\ pc[p] \in {"auth2", "send_message", "done"} )
        => ( /\ Refreshes(p)[1].tok = fileAtStart[p].data.refresh_token
             /\ file = JsonFile(newTokens[p])
             /\ HasRefreshToken(file) )

\* C9: nothing guards the token file.  The save that ends last decides the
\* content, whatever the file held and whoever else is saving; and a refresh
\* exchanges whatever refresh token the file holds when the handler reads it.
C9_LastWriterWins ==
    [][\A p \in Procs :
          /\ (pc[p] = "save_write" /\ pc'[p] # "save_write")
                => file' = JsonFile(newTokens[p])
          /\ (pc[p] = "reload" /\ pc'[p] = "refresh")
                => (rtoken'[p] = file.data.refresh_token /\ file' = file)]_vars

\* Two openSession calls both refreshed; the provider's latest refresh token went
\* to p, and the store holds the older one that q saved last.
C9_Witness ==
    \E p \in Procs, q \in Procs :
        /\ p # q /\ pc[p] = "done" /\ pc[q] = "done"
        /\ OAuthSession(p) /\ OAuthSession(q)
        /\ RefreshReturnedToken(p) /\ RefreshReturnedToken(q)
        /\ Len(Writes(p)) = 2 /\ Len(Writes(q)) = 2
        /\ newTokens[p].refresh_token = issued
        /\ newTokens[q].refresh_token # 0
        /\ newTokens[q].refresh_token < newTokens[p].refresh_token
        /\ file = JsonFile(newTokens[q])

\* C10 as stated: a load never sees the file between two complete contents, so
\* an openSession that started when the store held an access token does not
\* report that there are no tokens.
C10_AtomicSave ==
    \A p \in Procs :
        ( /\ OAuthSession(p)
          /\ fileAtStart[p].kind = "json"
          /\ fileAtStart[p].data.access_token # 0 )
        => result[p].kind # "No tokens found. Run 'oauth-init' first."

\* ---------------------------------------------------------- C11
\* Invocation p received a successful exchange or refresh response among the
\* first n entries of its log.
ExchangeSucceeded(p, n) ==
    \E j \in 1..n : log[p][j].ev \in {"exchange", "refresh"} /\ log[p][j].out = "OK"

\* C11: the token file is written only by a successful code exchange or a
\* successful refresh exchange.  Every write of an invocation comes after a
\* successful response of the provider in that invocation; an invocation that
\* has received none (get_credentials alone, oauth-init, oauth-status, a load,
\* a session that did not refresh, a failed exchange or refresh) has left the
\* token file exactly as it found it.
C11_WrittenOnlyAfterSuccess ==
    \A p \in Procs :
        pc[p] # "idle" =>
            /\ \A i \in 1..Len(log[p]) :
                   log[p][i].ev \in {"truncate", "saved"} => ExchangeSucceeded(p, i - 1)
            /\ ~ExchangeSucceeded(p, Len(log[p])) => file = fileAtStart[p]

\* C11 witness: a session whose refresh exchange failed has ended, and the
\* token set it started with is still in the file.
C11_Witness ==
    \E p \in Procs :
        /\ pc[p] = "done" /\ op[p] \in {"read", "send"}
        /\ \E j \in 1..Len(log[p]) : log[p][j].ev = "refresh" /\ log[p][j].out # "OK"
        /\ file.kind = "json" /\ file = fileAtStart[p]

\* ---------------------------------------------------------- C12
\* Invocation p ended in the registry lookup, the host check or get_credentials.
FailedBeforeSession(p) ==
    result[p].kind \in {"IMAP not configured", "SMTP not configured",
                        "Unknown account", "Missing"}

\* C12: a session (read or send) on the OAuth account that finds no token set
\* in the token file (no file, or content that does not parse) fails with
\* "No tokens found. Run 'oauth-init' first.", and makes no authentication
\* attempt, no refresh exchange and no write of the token file.  The sessions
\* meant are those that came to ask for the access token: on the read path the
\* connection is opened before that, and it was opened.
C12_NoTokensFailure ==
    \A p \in Procs :
        ( /\ OAuthSession(p) /\ pc[p] = "done" /\ ~FailedBeforeSession(p)
          /\ op[p] = "read" => conn[p] # "none"
          /\ fileAtStart[p].kind # "json" )
        => /\ result[p].kind = "No tokens found. Run 'oauth-init' first."
           /\ Attempts(p) = << >> /\ Refreshes(p) = << >> /\ Writes(p) = << >>

\* ---------------------------------------------------------- C13
\* Invocation p is a session (read or send) on a static-secret account that got
\* past the registry lookup, the host check and get_credentials.
StaticSession(p) ==
    /\ op[p] \in {"read", "send"}
    /\ account[p] \in {"gmail", "ac-creteil"}
    /\ pc[p] # "idle" /\ ~FailedBeforeSession(p)

\* C13: a session on a static-secret account, read or send, makes at most one
\* authentication attempt (mail.login / server.login); a failed attempt ends
\* the call in failure with no retry; the call never reads or writes the token
\* file and never contacts the identity provider.
C13_StaticOneAttempt ==
    \A p \in Procs :
        StaticSession(p) =>
            /\ Len(Attempts(p)) <= 1
            /\ \A i \in 1..Len(log[p]) : log[p][i].ev = "login"
            /\ (Attempts(p) # << >> /\ Attempts(p)[1].out # "OK") => Failed(p)
            /\ pc[p] \in {"connect", "starttls", "login", "send_message", "done"}
            /\ file = fileAtStart[p] /\ access[p] = 0 /\ rtoken[p] = 0

\* C13 witness: the server rejected the password of a static-secret account and
\* the call has ended in "Authentication failed" after that one attempt.
C13_Witness ==
    \E p \in Procs :
        /\ StaticSession(p) /\ pc[p] = "done"
        /\ Len(Attempts(p)) = 1
        /\ Attempts(p)[1].out \in {"IMAP4.error", "SMTPAuthenticationError"}
        /\ result[p].kind = "Authentication failed"

\* ---------------------------------------------------------- C14
\* The state of the session-establishment state machine invocation p is in.
\* FirstAuthAttempted and SecondAuthAttempted last as long as the attempt's
\* outcome is looked at: an accepted attempt is Success at once, and the handler
\* of a rejected first attempt is FirstAuthAttempted until it has looked for a
\* refresh token.
Phase(p) ==
    IF pc[p] = "idle" THEN "Init"
    ELSE IF \E i \in 1..Len(log[p]) : log[p][i].ev = "auth" /\ log[p][i].out = "OK"
    THEN "Success"
    ELSE IF pc[p] = "done" THEN "Failed"
    ELSE IF pc[p] \in {"connect", "starttls", "token", "auth1"} THEN "CredentialsResolved"
    ELSE IF pc[p] = "reload" THEN "FirstAuthAttempted"
    ELSE IF pc[p] = "refresh" THEN "NeedsRefresh"
    ELSE "Refreshed"

\* The transitions of the state machine, a state passed within one step
\* (FirstAuthAttempted before Success, SecondAuthAttempted) left out.
PhaseEdges ==
    {<<"Init", "CredentialsResolved">>, <<"Init", "Failed">>,
     <<"CredentialsResolved", "FirstAuthAttempted">>,
     <<"CredentialsResolved", "Success">>, <<"CredentialsResolved", "Failed">>,
     <<"FirstAuthAttempted", "NeedsRefresh">>, <<"FirstAuthAttempted", "Failed">>,
     <<"NeedsRefresh", "Refreshed">>, <<"NeedsRefresh", "Failed">>,
     <<"Refreshed", "Success">>, <<"Refreshed", "Failed">>}

\* The state of p after the step, as Phase gives it for the state before.
PhaseAfter(p) ==
    IF pc'[p] = "idle" THEN "Init"
    ELSE IF \E i \in 1..Len(log'[p]) : log'[p][i].ev = "auth" /\ log'[p][i].out = "OK"
    THEN "Success"
    ELSE IF pc'[p] = "done" THEN "Failed"
    ELSE IF pc'[p] \in {"connect", "starttls", "token", "auth1"} THEN "CredentialsResolved"
    ELSE IF pc'[p] = "reload" THEN "FirstAuthAttempted"
    ELSE IF pc'[p] = "refresh" THEN "NeedsRefresh"
    ELSE "Refreshed"

\* C14: a session on the OAuth account follows the state machine
\* Init -> CredentialsResolved -> FirstAuthAttempted -> {Success | NeedsRefresh
\* -> Refreshed -> SecondAuthAttempted -> {Success | Failed}} | Failed.  Every
\* step of a call either stays in its state or takes a transition of the machine
\* (so no step leaves Success or Failed, and none goes back to an earlier
\* state); and, every call returning, each call reaches Success or Failed.
C14_StateMachine ==
    /\ [][\A p \in Procs :
            (op'[p] \in {"read", "send"} /\ use_oauth(account'[p]))
            => \/ PhaseAfter(p) = Phase(p)
               \/ <<Phase(p), PhaseAfter(p)>> \in PhaseEdges]_vars
    /\ \A p \in Procs :
         (OAuthSession(p) /\ pc[p] # "done") ~> (Phase(p) \in {"Success", "Failed"})

\* C14 witness: a session went through every state of the long branch: the
\* first attempt was rejected, the refresh succeeded, and the second attempt
\* was made.
C14_Witness ==
    \E p \in Procs :
        /\ OAuthSession(p) /\ pc[p] = "done"
        /\ Len(Auths(p)) = 2 /\ Len(Refreshes(p)) = 1
        /\ Phase(p) \in {"Success", "Failed"}

\* ---------------------------------------------------------- C15
\* How the mail server answered an authentication attempt, as the claim sorts
\* the answers: accepted, rejected as an authentication error, or a connection
\* error.
ResponseClass(e) ==
    IF e = "OK" THEN "accepted"
    ELSE IF IsAuthRejection(e) THEN "rejected"
    ELSE "connection error"

\* The kind of outcome of session p in the error taxonomy: the two paths word
\* their connection failures differently.
OutcomeKind(p) ==
    IF Phase(p) = "Success" THEN "Success"
    ELSE IF result[p].kind \in {"Connection failed", "SMTP error", "Failed to send"}
    THEN "ConnectionFailed"
    ELSE result[p].kind

\* Sessions p and q were given the same responses: whatever both asked for
\* (first attempt, refresh exchange, second attempt) was answered alike.
SameResponses(p, q) ==
    /\ \A i \in 1..2 :
         (Len(Auths(p)) >= i /\ Len(Auths(q)) >= i)
         => ResponseClass(Auths(p)[i].out) = ResponseClass(Auths(q)[i].out)
    /\ (Refreshes(p) # << >> /\ Refreshes(q) # << >>)
       => Refreshes(p)[1].out = Refreshes(q)[1].out

\* C15: the read path and the send path implement the same protocol.  A read
\* session and a send session on the OAuth account that started from the same
\* token file content, each with a first attempt made, and that were given the
\* same server and provider responses, made the same number of authentication
\* attempts and of refresh exchanges, left the same token file content and
\* ended with the same kind of outcome.
C15_SameProtocol ==
    ( /\ pc[1] = "done" /\ pc[2] = "done"
      /\ OAuthSession(1) /\ op[1] = "read" /\ OAuthSession(2) /\ op[2] = "send"
      /\ fileAtStart[1] = fileAtStart[2]
      /\ Auths(1) # << >> /\ Auths(2) # << >>
      /\ SameResponses(1, 2) )
    => /\ Len(Auths(1)) = Len(Auths(2))
       /\ Len(Refreshes(1)) = Len(Refreshes(2))
       /\ file = fileAtStart[1]
       /\ OutcomeKind(1) = OutcomeKind(2)

\* ---------------------------------------------------------- C16
\* The names get_credentials gives to a missing address and a missing secret.
AddressField(a) ==
    CASE a = "gmail" -> "GMAIL_ADDRESS" [] a = "ac-creteil" -> "AC_CRETEIL_EMAIL"
      [] a = "hotmail" -> "HOTMAIL_ADDRESS" [] OTHER -> ""
SecretField(a) ==
    CASE a = "gmail" -> "GMAIL_APP_PASSWORD" [] a = "ac-creteil" -> "AC_CRETEIL_PASSWORD"
      [] a = "hotmail" -> "HOTMAIL_APP_PASSWORD" [] OTHER -> ""

\* C16: get_credentials succeeds exactly when the account is one of the three
\* enumerated, its address is non-empty, and the account is the OAuth one or its
\* secret is non-empty.  A static-secret account fails with "Missing ..." iff
\* the address or the secret is empty, and the message names the missing
\* variable (the address when both are missing); the OAuth account never fails
\* for an absent secret; any other identifier fails with "Unknown account".
C16_ResolveCredentials ==
    call.returned =>
        LET a == call.args[1]
            address == call.args[2]
            password == call.args[3]
            error == call.ret.error
            static == a \in {"gmail", "ac-creteil"}
        IN /\ (error = NoResult) <=> ( /\ a \in {"gmail", "ac-creteil", "hotmail"}
                                       /\ address # ""
                                       /\ (a = "hotmail" \/ password # << >>) )
           /\ static => /\ (error.kind = "Missing") <=> (address = "" \/ password = << >>)
                        /\ address = "" => error.detail = AddressField(a)
                        /\ (address # "" /\ password = << >>) => error.detail = SecretField(a)
           /\ a = "hotmail" => /\ (error # NoResult) <=> (address = "")
                               /\ address = "" => error = Failure("Missing", AddressField(a))
           /\ a \notin {"gmail", "ac-creteil", "hotmail"}
              => error = Failure("Unknown account", a)
           /\ error = NoResult => call.ret.address = address

\* C16 witness: get_credentials was applied to a static-secret account with
\* neither variable set, and named the address.
C16_Witness ==
    /\ call.returned /\ call.args[1] = "ac-creteil"
    /\ call.args[2] = "" /\ call.args[3] = << >>
    /\ call.ret.error = Failure("Missing", "AC_CRETEIL_EMAIL")

\* ---------------------------------------------------------- C17
\* The characters of s that are not in ws, in order.
RECURSIVE Without(_, _)
Without(s, ws) ==
    IF s = << >> THEN << >>
    ELSE IF Head(s) \in ws THEN Without(Tail(s), ws)
    ELSE <<Head(s)>> \o Without(Tail(s), ws)

\* get_credentials was applied to a static-secret account with a non-empty
\* secret and returned credentials.
ResolvedStaticSecret ==
    /\ call.returned /\ call.args[1] \in {"gmail", "ac-creteil"}
    /\ call.args[3] # << >> /\ call.ret.error = NoResult

\* C17 as stated: for every non-empty static secret, the secret get_credentials
\* returns contains no white space (space, tab, newline) and equals the
\* configured secret with all white space removed, the other characters kept in
\* order.
C17_Original ==
    ResolvedStaticSecret =>
        /\ \A i \in 1..Len(call.ret.password) : call.ret.password[i] \notin {" ", "\t", "\n"}
        /\ call.ret.password = Without(call.args[3], {" ", "\t", "\n"})

\* C17 amended: for every non-empty static secret, the secret get_credentials
\* returns contains no space character and equals the configured secret with
\* every space removed and every other character, tabs and newlines included,
\* kept in order.
C17_SpacesRemoved ==
    ResolvedStaticSecret =>
        /\ \A i \in 1..Len(call.ret.password) : call.ret.password[i] # " "
        /\ call.ret.password = Without(call.args[3], {" "})

\* C17 witness: a secret with two spaces and a tab was resolved: both spaces
\* are gone and the tab is still there.
C17_Witness ==
    /\ ResolvedStaticSecret
    /\ call.args[3] = <<" ", "\t", " ">>
    /\ call.ret.password = <<"\t">>

\* ---------------------------------------------------------- C18
\* Invocation p is a session that has done nothing but fail: no connection, no
\* network call, no access to the token file.
FailedAtOnce(p) ==
    /\ pc[p] = "done" /\ log[p] = << >> /\ conn[p] = "none"
    /\ access[p] = 0 /\ rtoken[p] = 0 /\ file = fileAtStart[p]

\* C18: a session for an unknown account identifier fails with "Unknown
\* account", and one for an account without a host for the requested role with
\* "IMAP / SMTP not configured", before any credential is resolved, the token
\* file is looked at or a connection is opened; a failure of get_credentials is
\* returned as it is, again before any connection is opened.
C18_EarlyFailures ==
    \A p \in Procs :
        (op[p] \in {"read", "send"} /\ pc[p] # "idle") =>
            /\ account[p] \notin {"gmail", "ac-creteil", "hotmail"}
               => FailedAtOnce(p) /\ result[p].kind = "Unknown account"
            /\ result[p].kind \in {"IMAP not configured", "SMTP not configured"}
               => FailedAtOnce(p)
            /\ result[p].kind = "Missing" => FailedAtOnce(p)

\* ---------------------------------------------------------- C19
\* Invocation p has just returned from save_tokens: its last file access is the
\* json.dump of newTokens[p].
JustSaved(p) ==
    /\ Writes(p) # << >>
    /\ Writes(p)[Len(Writes(p))].ev = "saved"

C20_LoadAbsent ==
    \A p \in Procs :
        (op[p] = "status" /\ pc[p] = "done" /\ fileAtStart[p].kind # "json")
        => /\ load_tokens(fileAtStart[p]).exc = ""
           /\ ~load_tokens(fileAtStart[p]).present
           /\ result[p].kind = "NOT_CONFIGURED"
           /\ file = fileAtStart[p]

\* ---------------------------------------------------------- C21
\* C21: in every reachable state, a token set in the token file carries a
\* saved_at stamp, whether oauth-callback or a refresh wrote it and whatever
\* keys the provider's response had.
C21_SavedAtStamped ==
    file.kind = "json" => file.data.saved_at # 0

\* C21 witness: a refresh whose response had neither an access token nor a
\* refresh token was saved, and the stored token set carries its stamp.
C21_Witness ==
    \E p \in Procs :
        /\ op[p] \in {"read", "send"} /\ JustSaved(p)
        /\ file.kind = "json"
        /\ file.data.access_token = 0 /\ file.data.refresh_token = 0
        /\ file.data.saved_at = now

\* ---------------------------------------------------------- C22
\* C22: in every reachable state, a token set in the token file contains an
\* access_token, whatever the provider's successful responses contained.
C22_AccessTokenStored ==
    file.kind = "json" => file.data.access_token # 0

\* ---------------------------------------------------------- C23
\* oauth-status ran in the second slot on the token file oauth-callback has
\* just written in the first.
StatusAfterCallback ==
    /\ op[1] = "callback" /\ pc[1] = "done" /\ result[1] = Success
    /\ op[2] = "status" /\ pc[2] = "done"
    /\ fileAtStart[2] = JsonFile(newTokens[1])

\* oauth-status ran with no token file present.
StatusWithoutFile(p) ==
    op[p] = "status" /\ pc[p] = "done" /\ fileAtStart[p].kind = "missing"

\* C23 as stated: oauth-status with no token file reports NOT_CONFIGURED;
\* after a successful oauth-callback it reports CONFIGURED, has_refresh_token
\* true and a non-empty saved_at.
C23_Original ==
    /\ \A p \in Procs : StatusWithoutFile(p) => result[p].kind = "NOT_CONFIGURED"
    /\ StatusAfterCallback
       => /\ result[2].kind = "CONFIGURED"
          /\ result[2].detail.has_refresh_token
          /\ result[2].detail.saved_at # 0

\* C23 amended: oauth-status with no token file reports NOT_CONFIGURED; after a
\* successful oauth-callback it reports CONFIGURED and a non-empty saved_at,
\* and has_refresh_token is true exactly when the provider's response to the
\* code exchange contained a refresh token.
C23_StatusReports ==
    /\ \A p \in Procs : StatusWithoutFile(p) => result[p].kind = "NOT_CONFIGURED"
    /\ StatusAfterCallback
       => /\ result[2].kind = "CONFIGURED"
          /\ result[2].detail.has_refresh_token <=> (newTokens[1].refresh_token # 0)
          /\ result[2].detail.saved_at # 0
          /\ result[2].detail.saved_at = newTokens[1].saved_at

\* C23 witness: oauth-status after a code exchange that returned a refresh
\* token reports CONFIGURED with has_refresh_token true.
C23_Witness ==
    /\ StatusAfterCallback
    /\ newTokens[1].refresh_token # 0
    /\ result[2].kind = "CONFIGURED"
    /\ result[2].detail.has_refresh_token

\* ---------------------------------------------------------- C24
\* Invocation p started on a token file holding an access token and no refresh
\* token.
NoRefreshStore(p) ==
    /\ fileAtStart[p].kind = "json"
    /\ fileAtStart[p].data.access_token # 0
    /\ fileAtStart[p].data.refresh_token = 0

\* C24: while the token file holds a token set with no refresh token, no
\* session and no oauth-status changes it or makes a refresh exchange, so only
\* oauth-callback replaces it; every session that presents its access token
\* once the server rejects it (the token has expired, and stays so) fails; a
\* session that presents it before that makes one attempt, no refresh, and
\* does not fail when the server answers the attempt.
C24_NoRecoveryWithoutRefreshToken ==
    \A p \in Procs :
        /\ (op[p] \in {"read", "send", "status"} /\ NoRefreshStore(p))
           => /\ file = fileAtStart[p]
              /\ Refreshes(p) = << >> /\ Writes(p) = << >>
        /\ (OAuthSession(p) /\ NoRefreshStore(p) /\ pc[p] = "done" /\ Auths(p) # << >>)
           => IF TokenExpired(fileAtStart[p], Auths(p)[1].at)
              THEN Failed(p)
              ELSE /\ Len(Auths(p)) = 1
                   /\ ResponseClass(Auths(p)[1].out) # "rejected"
                   /\ (Auths(p)[1].out = "OK" /\ op[p] = "read") => result[p] = Success

\* C24 witness: a session presented the expired access token of a token set
\* without refresh token, was rejected, and failed with the file unchanged.
C24_Witness ==
    \E p \in Procs :
        /\ OAuthSession(p) /\ NoRefreshStore(p) /\ pc[p] = "done"
        /\ Auths(p) # << >> /\ TokenExpired(fileAtStart[p], Auths(p)[1].at)
        /\ IsAuthRejection(Auths(p)[1].out)
        /\ Failed(p) /\ file = fileAtStart[p]

\* ---------------------------------------------------------- C25
\* p has returned from connect_imap / send_email.
SessionDone(p) == op[p] \in {"read", "send"} /\ pc[p] = "done"

\* The last authentication attempt of p was not accepted.
LastAttemptFailed(p) ==
    Attempts(p) # << >> /\ Attempts(p)[Len(Attempts(p))].out # "OK"

\* C25: every failure inside a session (opening the connection, loading the
\* tokens, the first attempt, the refresh exchange, a refresh response without
\* access token, the second attempt) comes back as a failure result of the
\* function: a returned session never carries an exception that left the
\* function, a session whose last attempt or whose refresh failed has a failure
\* result, and a failed refresh exchange is reported as "Token refresh failed".
C25_FailuresAreResults ==
    \A p \in Procs :
        SessionDone(p) =>
            /\ result[p].kind \notin {"", "uncaught exception"}
            /\ LastAttemptFailed(p) => Failed(p)
            /\ (Refreshes(p) # << >> /\ Refreshes(p)[1].out # "OK")
               => result[p].kind = "Token refresh failed"
            /\ (conn[p] = "none" /\ ~FailedBeforeSession(p)) => Failed(p)

\* A send session ended by the KeyError of a refresh response that has no
\* access token, returned as "Failed to send".
C25_Witness ==
    \E p \in Procs :
        /\ SessionDone(p) /\ op[p] = "send"
        /\ result[p] = Failure("Failed to send", "KeyError")
        /\ Len(Auths(p)) = 1 /\ Refreshes(p) # << >>

\* ---------------------------------------------------------- C26
\* urllib.parse.unquote_plus on one token: what the provider reads back.
unquote_plus(c) ==
    CASE c = "+"   -> " "
      [] c = "%3A" -> ":"
      [] c = "%2F" -> "/"
      [] c = "%26" -> "&"
      [] c = "%3D" -> "="
      [] c = "%2B" -> "+"
      [] c = "%25" -> "%"
      [] c = "%3F" -> "?"
      [] OTHER     -> c

\* The position of the first token c in s, or 0.
IndexOf(s, c) ==
    IF \E i \in 1..Len(s) : s[i] = c
    THEN CHOOSE i \in 1..Len(s) : s[i] = c /\ \A j \in 1..(i - 1) : s[j] # c
    ELSE 0

\* s cut at every token sep.
RECURSIVE SplitOn(_, _)
SplitOn(s, sep) ==
    LET i == IndexOf(s, sep) IN
    IF i = 0 THEN <<s>>
    ELSE <<SubSeq(s, 1, i - 1)>> \o SplitOn(SubSeq(s, i + 1, Len(s)), sep)

\* The query of a url as the provider parses it: the (key, value) pairs after
\* the "?", cut at "&" and at the first "=", then unquoted.
ParsedQuery(url) ==
    LET q == SubSeq(url, IndexOf(url, "?") + 1, Len(url))
        fields == SplitOn(q, "&")
        unq(s) == [i \in 1..Len(s) |-> unquote_plus(s[i])]
        kv(f) == LET e == IndexOf(f, "=") IN
                 IF e = 0 THEN <<unq(f), << >>>>
                 ELSE <<unq(SubSeq(f, 1, e - 1)), unq(SubSeq(f, e + 1, Len(f)))>>
    IN [i \in 1..Len(fields) |-> kv(fields[i])]

\* The query has exactly one parameter of that name, with that value.
HasParam(url, key, value) ==
    LET q == ParsedQuery(url) IN
    /\ \E i \in 1..Len(q) : q[i] = <<<<key>>, value>>
    /\ \A i \in 1..Len(q) : q[i][1] = <<key>> => q[i][2] = value

\* The calls of get_oauth_authorize_url made so far under one configuration.
UrlCalls == IF call.fn = "get_oauth_authorize_url" THEN call.ret ELSE << >>

\* C26: get_oauth_authorize_url fails with "AZURE_CLIENT_ID not configured"
\* exactly when the client identifier is empty; otherwise the url, as the
\* provider parses it, carries the client identifier, the fixed redirect URI,
\* the scopes and response_type code, on the authorize endpoint of the tenant;
\* two calls under the same configuration return the same value whatever time
\* passed between them; the token file is left as it was and no request is
\* issued to the provider.
C26_AuthorizeUrl ==
    /\ [](\A i \in 1..Len(UrlCalls) :
            LET r == UrlCalls[i]
                client_id == call.args[1]
            IN /\ (r.error # "") <=> (client_id = << >>)
               /\ r.error # "" => r.error = "AZURE_CLIENT_ID not configured" /\ r.url = << >>
               /\ r.error = ""
                  => /\ HasParam(r.url, "client_id", client_id)
                     /\ HasParam(r.url, "redirect_uri", AZURE_REDIRECT_URI)
                     /\ HasParam(r.url, "scope", AZURE_SCOPES)
                     /\ HasParam(r.url, "response_type", <<"code">>)
                     /\ Len(ParsedQuery(r.url)) = 6
                     /\ SubSeq(r.url, 1, IndexOf(r.url, "?"))
                        = <<"https", ":", "/", "/", "login.microsoftonline.com", "/",
                            call.args[2], "/", "oauth2", "/", "v2.0", "/", "authorize", "?">>
               /\ r = UrlCalls[1])
    /\ [][call'.ret # call.ret => /\ file' = file /\ issued' = issued /\ log' = log
                                  /\ fileAtStart' = fileAtStart]_vars

\* Two calls with the clock advanced between them, for a client identifier
\* that holds a reserved character.
C26_Witness ==
    /\ Len(UrlCalls) = 2 /\ call.args[3] < call.args[4]
    /\ \E i \in 1..Len(call.args[1]) : call.args[1][i] = "&"
    /\ UrlCalls[2].error = ""

\* ---------------------------------------------------------- C27
\* bytes.decode(): the code points of a UTF-8 byte sequence.
RECURSIVE utf8_decode(_)
utf8_decode(b) ==
    IF b = << >> THEN << >>
    ELSE IF b[1] < 128 THEN <<b[1]>> \o utf8_decode(Tail(b))
    ELSE IF Len(b) >= 2 /\ b[1] >= 192
    THEN <<(b[1] - 192) * 64 + (b[2] % 64)>> \o utf8_decode(SubSeq(b, 3, Len(b)))
    ELSE <<-1>>

\* base64.b64decode: the bytes of a padded base64 text.
b64decode(t) ==
    LET idx(c) == IF c = "=" THEN 0
                  ELSE (CHOOSE i \in 1..64 : B64Alphabet[i] = c) - 1
        pad == Cardinality({i \in 1..Len(t) : t[i] = "="})
        n == 3 * (Len(t) \div 4) - pad
        byte(i) ==
            LET k == (i - 1) \div 3
                j == (i - 1) % 3
                v == idx(t[4 * k + 1]) * 262144 + idx(t[4 * k + 2]) * 4096
                     + idx(t[4 * k + 3]) * 64 + idx(t[4 * k + 4])
            IN CASE j = 0 -> v \div 65536
                 [] j = 1 -> (v \div 256) % 256
                 [] OTHER -> v % 256
    IN [i \in 1..n |-> byte(i)]

\* The text is padded base64: groups of four characters of the alphabet, "="
\* only at the end and at most twice.
IsBase64(t) ==
    /\ Len(t) % 4 = 0
    /\ \A i \in 1..Len(t) :
         \/ \E x \in 1..64 : B64Alphabet[x] = t[i]
         \/ t[i] = "=" /\ i >= Len(t) - 1 /\ \A j \in i..Len(t) : t[j] = "="

\* "user=" + username + 0x01 + "auth=Bearer " + access_token + 0x01 + 0x01
BearerAssertion(username, access_token) ==
    <<117, 115, 101, 114, 61>> \o username \o <<1>>
    \o <<97, 117, 116, 104, 61, 66, 101, 97, 114, 101, 114, 32>> \o access_token \o <<1, 1>>

\* C27: generate_oauth2_string(username, access_token) returns exactly
\* "user=" username 0x01 "auth=Bearer " access_token 0x01 0x01 in raw form; in
\* encoded form it returns padded base64 text whose decoding is that same
\* string; the assertion rebuilt after a refresh is the raw form for the same
\* username and the refreshed access token.
C27_BearerAssertion ==
    (call.fn = "generate_oauth2_string" /\ call.returned) =>
        LET username == call.args[1]
            raw == BearerAssertion(username, call.args[2])
        IN /\ ~call.args[3] => call.ret[1] = raw
           /\ call.args[3] => /\ IsBase64(call.ret[1])
                              /\ utf8_decode(b64decode(call.ret[1])) = raw
           /\ Len(call.ret) = 2 => call.ret[2] = BearerAssertion(username, call.args[4])

\* An encoded assertion that needs padding, for an address with a character
\* outside ASCII, followed by the assertion rebuilt for another token.
C27_Witness ==
    /\ call.fn = "generate_oauth2_string" /\ Len(call.ret) = 2
    /\ call.args[3] /\ call.ret[1][Len(call.ret[1])] = "="
    /\ \E i \in 1..Len(call.args[1]) : call.args[1][i] = 233
    /\ call.args[4] # call.args[2]

\* ---------------------------------------------------------- C28
\* C28: a read session that fails after its connection to the mail server was
\* opened (no tokens, attempt rejected, no refresh token, refresh failed,
\* second attempt rejected) has closed the connection when it returns: no
\* failed read session is left with an open connection.
C28_FailedReadClosesConnection ==
    \A p \in Procs :
        (op[p] = "read" /\ Failed(p)) => conn[p] # "open"

\* ---------------------------------------------------------- C29
\* The step sends a credential of send session p to the server: server.login
\* or server.auth, the retried one included.
SendsCredential(p) ==
    /\ op[p] = "send"
    /\ Len(log'[p]) = Len(log[p]) + 1
    /\ log'[p][Len(log'[p])].ev \in {"auth", "login"}

\* The step puts the connection of send session p under TLS.
SecuresTransport(p) == op[p] = "send" /\ conn[p] # "open" /\ conn'[p] = "open"

\* C29: on the send path of every account a credential (password login, bearer
\* assertion, retried bearer assertion) is sent only on a connection that is
\* under TLS, and the connection came under TLS by being opened with SMTP_SSL
\* when the account has use_ssl_smtp, otherwise by a starttls that succeeded on
\* the plain connection.
C29_TlsBeforeCredentials ==
    [][\A p \in Procs :
          /\ SendsCredential(p) => conn[p] = "open"
          /\ SecuresTransport(p) =>
                IF SERVERS(account[p], TRUE, TRUE).use_ssl_smtp
                THEN pc[p] = "connect" /\ conn[p] = "none"
                ELSE pc[p] = "starttls" /\ conn[p] = "plain"]_vars

\* A send session on the OAuth account whose retried assertion was accepted,
\* about to send the message on its upgraded connection.
C29_Witness ==
    \E p \in Procs :
        /\ op[p] = "send" /\ account[p] = "hotmail"
        /\ Len(Auths(p)) = 2 /\ pc[p] = "send_message" /\ conn[p] = "open"

\* ---------------------------------------------------------- C30
\* C30: whenever get_credentials succeeds for a static-secret account, the
\* secret it returns for the login step is not empty, whatever the configured
\* secret is, one made only of white space included.
C30_ResolvedSecretNonEmpty ==
    ResolvedStaticSecret => call.ret.password # << >>

\* ---------------------------------------------------------- C31
\* The url oauth_callback is studied with, and the invocations that were given it.
StudiedUrl == call.args[1]
CallbackOf(p) == call.fn = "oauth_callback" /\ op[p] = "callback"
Exchanges(p) == SelectSeq(log[p], LAMBDA x : x.ev = "exchange")

\* The values of the fields of that name in the query, in order, empty ones included.
FieldValues(url, name) ==
    LET sel == SelectSeq(url.query, LAMBDA f : f[1] = name)
    IN [i \in 1..Len(sel) |-> sel[i][2]]

\* The same without the empty values.
FilledValues(url, name) == SelectSeq(FieldValues(url, name), LAMBDA v : v # 0)

\* The invocation failed at once: no exchange, the token file as it was.
RefusedUrl(p) ==
    /\ Failed(p) /\ log[p] = << >> /\ file = fileAtStart[p]

\* The token file is written only after an exchange that succeeded.
WrittenAfterExchange(p) ==
    \A i \in 1..Len(log[p]) :
        log[p][i].ev \in {"truncate", "saved"}
        => \E j \in 1..(i - 1) : log[p][j].ev = "exchange" /\ log[p][j].out = "OK"

\* C31 as stated: a callback url that carries an error parameter, or no code
\* parameter, gives a failure with no token exchange and the token file
\* unchanged; an exchange is made only with the first code value of the url;
\* the file is written only when that exchange succeeded.
C31_Original ==
    \A p \in Procs :
        CallbackOf(p) =>
            /\ (FieldValues(StudiedUrl, "error") # << >>
                \/ FieldValues(StudiedUrl, "code") = << >>) => RefusedUrl(p)
            /\ \A i \in 1..Len(Exchanges(p)) :
                 Exchanges(p)[i].tok = FieldValues(StudiedUrl, "code")[1]
            /\ WrittenAfterExchange(p)

\* C31, amended: a callback url that carries an error parameter with a
\* non-empty value, or no code parameter with a non-empty value, or that cannot
\* be parsed, gives a failure with no token exchange and the token file
\* unchanged; at most one exchange is made, with the first non-empty code value
\* of the url; the file is written only when that exchange succeeded.
C31_CallbackUrl ==
    \A p \in Procs :
        CallbackOf(p) =>
            /\ (\/ ~StudiedUrl.valid
                \/ FilledValues(StudiedUrl, "error") # << >>
                \/ FilledValues(StudiedUrl, "code") = << >>) => RefusedUrl(p)
            /\ Len(Exchanges(p)) <= 1
            /\ \A i \in 1..Len(Exchanges(p)) :
                 Exchanges(p)[i].tok = FilledValues(StudiedUrl, "code")[1]
            /\ WrittenAfterExchange(p)

\* A url with two different codes whose exchange succeeded and was stored.
C31_Witness ==
    \E p \in Procs :
        /\ CallbackOf(p) /\ pc[p] = "done" /\ result[p] = Success
        /\ Len(FilledValues(StudiedUrl, "code")) = 2
        /\ FilledValues(StudiedUrl, "code")[1] # FilledValues(StudiedUrl, "code")[2]
        /\ Len(Writes(p)) = 2

\* ---------------------------------------------------------- C32
Uids(box) == {box[i].uid : i \in 1..Len(box)}

\* The steps of that name the move has made.
MoveSteps(name) == SelectSeq(mv.steps, LAMBDA x : x[1] = name)

\* C32: move_email flags the message deleted and expunges only after the copy
\* returned OK; when the copy fails the INBOX is as it was; when the move
\* succeeds the only message gone from the INBOX is the one email_id named when
\* the move started: no other message, flagged \Deleted before or not, is gone.
C32_OnlyTheMovedMessageLeaves ==
    mv.pc # "idle" =>
        /\ (MoveSteps("store") # << >> \/ MoveSteps("expunge") # << >>)
           => MoveSteps("copy") = << <<"copy", "OK">> >>
        /\ (mv.pc = "done" /\ MoveSteps("copy") # << <<"copy", "OK">> >>)
           => inbox = mv.before
        /\ (mv.pc = "done" /\ mv.result = "success")
           => Uids(mv.before) \ Uids(inbox) \subseteq {mv.before[mv.email_id].uid}

\* ---------------------------------------------------------- C33
\* The category sort_account holds for the listed message uid ("" when it has none).
CategoryOf(uid) ==
    LET ids == {sorter.emails[i].id : i \in {j \in 1..Len(sorter.emails) :
                                               sorter.emails[j].uid = uid}}
        cs == {sorter.classifications[i][2] : i \in {j \in 1..Len(sorter.classifications) :
                                                       sorter.classifications[j][1] \in ids}}
    IN IF cs = {} THEN "" ELSE CHOOSE c \in cs : TRUE

\* The message the list named by that id.
ListedUid(id) ==
    LET hits == {sorter.emails[i].uid : i \in {j \in 1..Len(sorter.emails) :
                                                 sorter.emails[j].id = id}}
    IN IF hits = {} THEN 0 ELSE CHOOSE u \in hits : TRUE

\* C33: sort_account archives only listed unread emails classified newsletter,
\* spam or promo, each into the folder of its category and at most once, and
\* never one classified urgent, important or normal: whatever the order in
\* which the classifications are gone through, the message each move copies is
\* the one that was listed under the id the move was given.
C33_MovesTheListedMessage ==
    /\ \A i \in 1..Len(sorter.moves) :
         sorter.moves[i].uid = ListedUid(sorter.moves[i].id)
    /\ \A i, j \in 1..Len(sorter.moves) :
         i # j => sorter.moves[i].uid # sorter.moves[j].uid
    /\ \A a \in archive :
         /\ CategoryOf(a[1]) \in {"newsletter", "spam", "promo"}
         /\ a[2] = FOLDERS(CategoryOf(a[1]))

\* ---------------------------------------------------------- C34
\* wait_for_prediction, or the request it was blocked in, has ended.
PollEnded == poll.pc \in {"returned", "exit", "raised"}

\* It ended on the status it last read, not in api_request.
EndedOnStatus == poll.pc = "returned" \/ (poll.pc = "exit" /\ poll.error # "API Error")

PollOutcome ==
    /\ poll.attempts <= MAX_POLL_ATTEMPTS
    /\ poll.pc = "returned" => poll.status = "succeeded"
    /\ EndedOnStatus =>
         /\ poll.status = "succeeded" => poll.pc = "returned"
         /\ poll.status = "failed" => poll.error = "Prediction failed"
         /\ poll.status = "canceled" => poll.error = "Prediction was canceled"
         /\ poll.status \in {"aborted", "None"}
              => poll.error = "Unexpected prediction status"
         /\ poll.status \in Pending
              => poll.error = "Prediction timed out" /\ poll.attempts = MAX_POLL_ATTEMPTS

\* C34: wait_for_prediction terminates whatever statuses the API reports; it
\* polls at most MAX_POLL_ATTEMPTS times, returns only a succeeded prediction,
\* and exits with an error on failed, canceled, an unexpected status, or a
\* status still pending after the last allowed poll.
C34_PollingTerminates ==
    /\ [](PollOutcome)
    /\ <>(poll.pc = "skipped" \/ PollEnded)

\* The last allowed poll still reported a pending status and the script gave up.
C34_Witness ==
    /\ poll.pc = "exit"
    /\ poll.error = "Prediction timed out"
    /\ poll.attempts = MAX_POLL_ATTEMPTS
    /\ poll.status \in Pending

\* ---------------------------------------------------------- C35
\* The mailbox list / search was applied to, the matching ids and the limit.
ListApplied == call.fn = "list_emails" /\ call.returned
Matching == search_ids(call.args[1], call.args[2])

\* C35: list_emails and search_emails return at most limit emails, for every
\* integer limit, 0 included, and every mailbox size; the emails returned are
\* the most recent matching ones, newest first.
C35_AtMostLimit ==
    ListApplied =>
        LET limit == call.args[3]
            n == Len(call.ret)
        IN /\ n <= (IF limit < 0 THEN 0 ELSE limit)
           /\ \A i \in 1..n : call.ret[i] = Matching[Len(Matching) + 1 - i]

=============================================================================
